---- MODULE Spec2Model ----
(***************************************************************************)
(* A model of beadsflow's epic run loop building blocks:                   *)
(*                                                                         *)
(*   - the marker parser and the phase state machine                       *)
(*     (src/src/beadsflow/application/select.py),                          *)
(*   - the child selector (select.py) and the readiness test of the run    *)
(*     loop (src/src/beadsflow/application/runner.py),                     *)
(*   - the reviewer's marker-line predicates                               *)
(*     (src/src/beadsflow/application/review.py),                          *)
(*   - the comment capper, the diagnostics and the epic run loop itself    *)
(*     (runner.py), on a tracker that answers as BeadsCli does             *)
(*     (src/src/beadsflow/infra/beads_cli.py),                             *)
(*   - the resynchronizing tracker calls of BeadsCli (beads_cli.py) and    *)
(*     the reviewer's _ensure_marker (review.py).                          *)
(*                                                                         *)
(* Text is a sequence of characters, each character a one-character        *)
(* string.  The TLA+ lexer has no backquote inside a string, so the        *)
(* backquote character is written "BACKTICK".                              *)
(*                                                                         *)
(* Every component has a specification of its own (SpecMarker, SpecPhase,  *)
(* SpecSelect, SpecReady, SpecCap, SpecTruncate, SpecEnsureMarker, SpecBd, *)
(* and for the run loop SpecRun, SpecRunProfiles and, with fairness,       *)
(* SpecRunFair); a specification leaves the variables of the other         *)
(* components at their idle values.  The properties checked are at the end *)
(* of the module.                                                          *)
(***************************************************************************)
EXTENDS Integers, Sequences, FiniteSets, TLC

VARIABLES
    comment,            \* marker parser: the Comment handed to marker_from_comment
    parsed,             \* marker parser: its return value
    comments,           \* phase: the comments handed to determine_phase_from_comments
    marker,             \* phase: the local `marker` of determine_phase_from_comments
    phase,              \* phase: its return value
    first_phase,        \* phase: the phase returned before the comments were reordered
    children,           \* selector: the `children` argument (IssueSummary values)
    resume_in_progress, \* selector: the `resume_in_progress` argument
    ready_ids,          \* selector: the ids `is_ready` holds for
    selected,           \* selector: the return value of select_next_child
    child,              \* readiness: the Issue handed to _is_child_ready
    epic_child_ids,     \* readiness: the ids of the epic's dependents
    ready,              \* readiness: the return value of _is_child_ready
    issues,             \* run loop: the tracker's record of every issue
    once,               \* run loop: the `once` argument of run
    dry_run,            \* run loop: the `dry_run` argument of run
    max_iterations,     \* run loop: the `max_iterations` argument of run
    settings,           \* run loop: EpicRunLoop.settings
    implementer_name,   \* run loop: EpicRunLoop.implementer_name
    reviewer_name,      \* run loop: EpicRunLoop.reviewer_name
    environ,            \* run loop: the BEADSFLOW_MAX_COMMENT_* variables
    git_available,      \* run loop: shutil.which("git") is not None
    worktree,           \* run loop: the state of the working tree
    pending,            \* run loop: an agent's comment not yet visible
    pc,                 \* run loop: where run is
    iteration,          \* run loop: the iterations started
    frame,              \* run loop: the locals of the phase in progress
    polls,              \* run loop: the fetches of _wait_for_phase so far
    last_phase,         \* run loop: the phase _wait_for_phase read last
    run_result,         \* run loop: what run returned or raised
    events,             \* run loop: its effects so far, in order
    cap_body,           \* capper: the `body` argument of _cap_comment_body
    cap_prefix,         \* capper: its `prefix` argument
    cap_suffix,         \* capper: its `suffix` argument
    cap_environ,        \* capper: the BEADSFLOW_MAX_COMMENT_* variables
    cap_result,         \* capper: its return value
    trunc_text,         \* truncation: the `text` argument of _truncate_utf8
    trunc_max_bytes,    \* truncation: its `max_bytes` argument
    trunc_result,       \* truncation: its return value
    review_output,      \* reviewer: the `output` argument of _ensure_marker
    ensured,            \* reviewer: its return value
    bd_call,            \* tracker call: the BeadsCli method called and its arguments
    bd_pc,              \* tracker call: where the method is
    bd_runs,            \* tracker call: every subprocess.run so far, argv and result
    bd_outcome          \* tracker call: what the method returned or raised

markerVars == <<comment, parsed>>
phaseVars == <<comments, marker, phase, first_phase>>
selectVars == <<children, resume_in_progress, ready_ids, selected>>
readyVars == <<child, epic_child_ids, ready>>
runVars ==
    <<issues, once, dry_run, max_iterations, settings, implementer_name,
      reviewer_name, environ, git_available, worktree, pending, pc, iteration,
      frame, polls, last_phase, run_result, events>>
capVars == <<cap_body, cap_prefix, cap_suffix, cap_environ, cap_result>>
truncVars == <<trunc_text, trunc_max_bytes, trunc_result>>
ensureVars == <<review_output, ensured>>
bdVars == <<bd_call, bd_pc, bd_runs, bd_outcome>>
toolVars == <<capVars, truncVars, ensureVars, bdVars>>
vars == <<markerVars, phaseVars, selectVars, readyVars, runVars, toolVars>>

\* Python's None where a str-valued enumeration member or None is expected,
\* and the value of such a result variable before the call returned.
None == "None"
Unset == "Unset"

\* A value of type `T | None` for a record type T: a sequence of at most one T.
Nothing == <<>>
Some(v) == <<v>>

\* A result variable of another type: before and after the call returned.
NotReturned == [returned |-> FALSE]
Returned(v) == [returned |-> TRUE, value |-> v]

(***************************************************************************)
(* Python str primitives used by the parsers.                              *)
(***************************************************************************)

\* str.strip() removes these (the ASCII whitespace of the modelled alphabet).
Whitespace == {" ", "\t", "\n", "\r", "\f"}

\* str.splitlines() breaks a line at these ("\r\n" counts as one break).
LineBreaks == {"\n", "\r", "\f"}

LowercaseLetters ==
    <<"a", "b", "c", "d", "e", "f", "g", "h", "i", "j", "k", "l", "m", "n",
      "o", "p", "q", "r", "s", "t", "u", "v", "w", "x", "y", "z">>

UppercaseLetters ==
    <<"A", "B", "C", "D", "E", "F", "G", "H", "I", "J", "K", "L", "M", "N",
      "O", "P", "Q", "R", "S", "T", "U", "V", "W", "X", "Y", "Z">>

Digits == {"0", "1", "2", "3", "4", "5", "6", "7", "8", "9"}

Range(f) == {f[k] : k \in DOMAIN f}

\* str.isalnum() of one character.
isalnum(c) == c \in Range(LowercaseLetters) \cup Range(UppercaseLetters) \cup Digits

char_upper(c) ==
    IF c \in Range(LowercaseLetters)
    THEN UppercaseLetters[CHOOSE k \in 1..26 : LowercaseLetters[k] = c]
    ELSE c

char_lower(c) ==
    IF c \in Range(UppercaseLetters)
    THEN LowercaseLetters[CHOOSE k \in 1..26 : UppercaseLetters[k] = c]
    ELSE c

\* str.upper() and str.lower().
upper(s) == [k \in 1..Len(s) |-> char_upper(s[k])]
lower(s) == [k \in 1..Len(s) |-> char_lower(s[k])]

RECURSIVE lstrip(_)
lstrip(s) ==
    IF s # <<>> /\ Head(s) \in Whitespace THEN lstrip(Tail(s)) ELSE s

RECURSIVE rstrip(_)
rstrip(s) ==
    IF s # <<>> /\ s[Len(s)] \in Whitespace
    THEN rstrip(SubSeq(s, 1, Len(s) - 1))
    ELSE s

\* str.strip()
strip(s) == rstrip(lstrip(s))

\* str.startswith(prefix)
startswith(s, prefix) ==
    Len(s) >= Len(prefix) /\ SubSeq(s, 1, Len(prefix)) = prefix

\* str.splitlines(): the lines without their line breaks; no empty last
\* line after a final line break; "" has no lines.  From position i on: the
\* line up to the next line break, then the lines after the break.
RECURSIVE splitlines_from(_, _)
splitlines_from(s, i) ==
    IF i > Len(s) THEN <<>>
    ELSE LET breaks == {j \in i..Len(s) : s[j] \in LineBreaks}
             end == IF breaks = {} THEN Len(s) + 1
                    ELSE CHOOSE j \in breaks : \A k \in breaks : j <= k
             next == IF end < Len(s) /\ s[end] = "\r" /\ s[end + 1] = "\n"
                     THEN end + 2
                     ELSE end + 1
         IN  <<SubSeq(s, i, end - 1)>> \o splitlines_from(s, next)

splitlines(s) == splitlines_from(s, 1)

\* "\n".join(ls)
RECURSIVE JoinLines(_)
JoinLines(ls) ==
    IF ls = <<>> THEN <<>>
    ELSE IF Len(ls) = 1 THEN ls[1]
    ELSE ls[1] \o <<"\n">> \o JoinLines(Tail(ls))

(***************************************************************************)
(* Marker parser (select.py).                                              *)
(***************************************************************************)

READY_FOR_REVIEW == "READY_FOR_REVIEW"
LGTM == "LGTM"
CHANGES_REQUESTED == "CHANGES_REQUESTED"

\* The Marker enumeration.
Marker == {READY_FOR_REVIEW, LGTM, CHANGES_REQUESTED}

\* The string literals of marker_from_comment.
ReadyForReviewPrefix ==
    <<"R", "e", "a", "d", "y", " ", "f", "o", "r", " ", "r", "e", "v", "i",
      "e", "w", ":">>

LgtmWord == <<"L", "G", "T", "M">>

LgtmSpacePrefix == <<"L", "G", "T", "M", " ">>

ChangesRequestedPrefix ==
    <<"C", "h", "a", "n", "g", "e", "s", " ", "r", "e", "q", "u", "e", "s",
      "t", "e", "d", ":">>

\* The body of the `for line in ...` loop for one non-blank stripped line:
\* the three tests and the final `return None`.
marker_of_first(first) ==
    IF startswith(first, ReadyForReviewPrefix) THEN READY_FOR_REVIEW
    ELSE IF first = LgtmWord \/ startswith(first, LgtmSpacePrefix) THEN LGTM
    ELSE IF startswith(first, ChangesRequestedPrefix) THEN CHANGES_REQUESTED
    ELSE None

\* The loop from line i on: a blank line continues, the first non-blank
\* line returns; falling off the end returns None.
RECURSIVE marker_scan(_, _)
marker_scan(lines, i) ==
    IF i > Len(lines) THEN None
    ELSE LET first == strip(lines[i])
         IN  IF first = <<>> THEN marker_scan(lines, i + 1)
             ELSE marker_of_first(first)

\* A parser that goes on to the next line when a non-blank line carries no
\* marker.
RECURSIVE marker_scan_any_line(_, _)
marker_scan_any_line(lines, i) ==
    IF i > Len(lines) THEN None
    ELSE LET first == strip(lines[i])
         IN  IF first = <<>> \/ marker_of_first(first) = None
             THEN marker_scan_any_line(lines, i + 1)
             ELSE marker_of_first(first)

marker_from_comment_any_line(c) == marker_scan_any_line(splitlines(c.text), 1)

marker_from_comment(c) == marker_scan(splitlines(c.text), 1)

(***************************************************************************)
(* Reviewer marker-line predicates (review.py).                            *)
(***************************************************************************)

ChangesRequestedLower ==
    <<"c", "h", "a", "n", "g", "e", "s", " ", "r", "e", "q", "u", "e", "s",
      "t", "e", "d">>

ChangesRequestedColonLower ==
    <<"c", "h", "a", "n", "g", "e", "s", " ", "r", "e", "q", "u", "e", "s",
      "t", "e", "d", ":">>

_is_lgtm_line(line) ==
    LET stripped == strip(line)
    IN  IF stripped = <<>> THEN FALSE
        ELSE IF ~startswith(upper(stripped), LgtmWord) THEN FALSE
        ELSE Len(stripped) = 4 \/ ~isalnum(stripped[5])

_is_changes_requested_line(line) ==
    LET stripped == strip(line)
    IN  IF stripped = <<>> THEN FALSE
        ELSE lower(stripped) = ChangesRequestedLower
             \/ startswith(lower(stripped), ChangesRequestedColonLower)

(***************************************************************************)
(* Phase state machine (select.py).                                        *)
(***************************************************************************)

IMPLEMENT == "IMPLEMENT"
REVIEW == "REVIEW"
CLOSE == "CLOSE"

\* The Phase enumeration.
Phase == {IMPLEMENT, REVIEW, CLOSE}

\* sorted(comments, key=lambda c: c.created_at): Python's sort is stable,
\* comments with equal created_at keep the order they were passed in.
sorted_by_created_at(cs) ==
    LET n == Len(cs)
        rank(i) ==
            1 + Cardinality({j \in 1..n :
                    \/ cs[j].created_at < cs[i].created_at
                    \/ cs[j].created_at = cs[i].created_at /\ j < i})
    IN  [k \in 1..n |-> cs[CHOOSE i \in 1..n : rank(i) = k]]

\* The loop of latest_marker from the i-th sorted comment on, `m` being the
\* local `marker`.
RECURSIVE latest_marker_loop(_, _, _)
latest_marker_loop(scs, i, m) ==
    IF i > Len(scs) THEN m
    ELSE LET maybe == marker_from_comment(scs[i])
         IN  latest_marker_loop(scs, i + 1, IF maybe # None THEN maybe ELSE m)

\* A loop that keeps the first marker it meets.
RECURSIVE first_marker_loop(_, _, _)
first_marker_loop(scs, i, m) ==
    IF i > Len(scs) THEN m
    ELSE LET maybe == marker_from_comment(scs[i])
         IN  first_marker_loop(scs, i + 1, IF m = None THEN maybe ELSE m)

latest_marker_keeps_first(cs) ==
    first_marker_loop(sorted_by_created_at(cs), 1, None)

\* A loop in which a comment without a marker resets the marker.
RECURSIVE resetting_marker_loop(_, _, _)
resetting_marker_loop(scs, i, m) ==
    IF i > Len(scs) THEN m
    ELSE resetting_marker_loop(scs, i + 1, marker_from_comment(scs[i]))

latest_marker_resets(cs) ==
    resetting_marker_loop(sorted_by_created_at(cs), 1, None)

latest_marker(cs) == latest_marker_loop(sorted_by_created_at(cs), 1, None)

\* A match that sends CHANGES_REQUESTED to REVIEW.
match_marker_changes_to_review(m) ==
    CASE m = None -> IMPLEMENT
      [] m = READY_FOR_REVIEW -> REVIEW
      [] m = CHANGES_REQUESTED -> REVIEW
      [] m = LGTM -> CLOSE
      [] OTHER -> "AssertionError"

\* The match statement of determine_phase_from_comments; assert_never
\* raises AssertionError.
match_marker(m) ==
    CASE m = None -> IMPLEMENT
      [] m = READY_FOR_REVIEW -> REVIEW
      [] m = CHANGES_REQUESTED -> IMPLEMENT
      [] m = LGTM -> CLOSE
      [] OTHER -> "AssertionError"

determine_phase_from_comments(cs) == match_marker(latest_marker(cs))

(***************************************************************************)
(* Child selector (select.py).                                             *)
(***************************************************************************)

OPEN == "open"
IN_PROGRESS == "in_progress"
CLOSED == "closed"

\* The IssueStatus enumeration.
IssueStatus == {OPEN, IN_PROGRESS, CLOSED}

\* The characters of issue ids in code point order: Python compares str
\* values character by character, a proper prefix being the smaller.
CodePointOrder ==
    <<"0", "1", "2", "3", "4", "5", "6", "7", "8", "9">>
    \o UppercaseLetters \o LowercaseLetters

ord(c) == CHOOSE k \in DOMAIN CodePointOrder : CodePointOrder[k] = c

RECURSIVE str_less(_, _)
str_less(a, b) ==
    IF b = <<>> THEN FALSE
    ELSE IF a = <<>> THEN TRUE
    ELSE IF Head(a) # Head(b) THEN ord(Head(a)) < ord(Head(b))
    ELSE str_less(Tail(a), Tail(b))

\* A sort key that leaves created_at out.
_priority_sort_key_without_created_at(issue) ==
    <<issue.priority, 0, issue.id>>

_priority_sort_key(issue) == <<issue.priority, issue.created_at, issue.id>>

\* Python's < on tuple[int, datetime, str].
key_less(a, b) ==
    \/ a[1] < b[1]
    \/ a[1] = b[1] /\ a[2] < b[2]
    \/ a[1] = b[1] /\ a[2] = b[2] /\ str_less(a[3], b[3])

\* sorted(eligible, key=_priority_sort_key): stable.
sorted_by_priority_key(cs) ==
    LET n == Len(cs)
        key(i) == _priority_sort_key(cs[i])
        rank(i) ==
            1 + Cardinality({j \in 1..n :
                    \/ key_less(key(j), key(i))
                    \/ ~key_less(key(i), key(j)) /\ j < i})
    IN  [k \in 1..n |-> cs[CHOOSE i \in 1..n : rank(i) = k]]

\* An eligibility filter that always resumes in-progress children.
eligible_statuses_always_resume(resume) == {OPEN, IN_PROGRESS}

eligible_statuses(resume) ==
    {OPEN} \cup (IF resume THEN {IN_PROGRESS} ELSE {})

\* The loop over the sorted eligible children from the i-th on; is_ready is
\* given by the set of ids it holds for.
RECURSIVE first_ready(_, _, _)
first_ready(scs, i, is_ready) ==
    IF i > Len(scs) THEN Nothing
    ELSE IF scs[i].id \in is_ready THEN Some(scs[i])
    ELSE first_ready(scs, i + 1, is_ready)

select_next_child(cs, resume, is_ready) ==
    LET IsEligible(c) == c.status \in eligible_statuses(resume)
        eligible == SelectSeq(cs, IsEligible)
    IN  first_ready(sorted_by_priority_key(eligible), 1, is_ready)

(***************************************************************************)
(* Readiness of a child (runner.py).                                       *)
(***************************************************************************)

\* The loop of _is_child_ready from the i-th dependency on.
RECURSIVE is_child_ready_loop(_, _, _)
is_child_ready_loop(deps, i, ids) ==
    IF i > Len(deps) THEN TRUE
    ELSE IF deps[i].id \in ids /\ deps[i].status # CLOSED THEN FALSE
    ELSE is_child_ready_loop(deps, i + 1, ids)

\* A readiness test that holds for every child.
_is_child_ready_always(issue, ids) == TRUE

\* A readiness test that asks every dependency to be closed.
_is_child_ready_any_dependency(issue, ids) ==
    \A k \in DOMAIN issue.dependencies : issue.dependencies[k].status = CLOSED

_is_child_ready(issue, ids) == is_child_ready_loop(issue.dependencies, 1, ids)

(***************************************************************************)
(* Comment capper (runner.py).                                             *)
(***************************************************************************)

DEFAULT_MAX_COMMENT_BYTES == 800
DEFAULT_MAX_COMMENT_LINES == 40

\* "\n\n[truncated]\n"
TRUNCATED_NOTICE ==
    <<"\n", "\n", "[", "t", "r", "u", "n", "c", "a", "t", "e", "d", "]", "\n">>

\* Characters of more than one UTF-8 byte are written by name: U+00E9 (two
\* bytes), U+20AC and the ellipsis U+2026 (three), U+1F600 (four).
ELLIPSIS == "U+2026"

utf8_width(c) ==
    CASE c = "U+00E9" -> 2
      [] c = "U+20AC" -> 3
      [] c = ELLIPSIS -> 3
      [] c = "U+1F600" -> 4
      [] OTHER -> 1

\* str.encode("utf-8"): a byte is the index-th of the `of` bytes of its
\* character.
RECURSIVE encode(_)
encode(s) ==
    IF s = <<>> THEN <<>>
    ELSE [i \in 1..utf8_width(Head(s)) |->
              [char |-> Head(s), index |-> i, of |-> utf8_width(Head(s))]]
         \o encode(Tail(s))

\* A decoder that puts U+FFFD where a sequence is not complete.
RECURSIVE decode_replace(_)
decode_replace(bs) ==
    IF bs = <<>> THEN <<>>
    ELSE IF Head(bs).index = 1 /\ Len(bs) >= Head(bs).of
    THEN <<Head(bs).char>>
         \o decode_replace(SubSeq(bs, Head(bs).of + 1, Len(bs)))
    ELSE <<"U+FFFD">> \o decode_replace(Tail(bs))

\* bytes.decode("utf-8", errors="ignore"): a complete sequence gives its
\* character, a byte that starts no complete sequence is dropped.
RECURSIVE decode_ignore(_)
decode_ignore(bs) ==
    IF bs = <<>> THEN <<>>
    ELSE LET b == Head(bs)
             complete ==
                 /\ b.index = 1
                 /\ Len(bs) >= b.of
                 /\ \A i \in 1..b.of :
                        bs[i].char = b.char /\ bs[i].index = i /\ bs[i].of = b.of
         IN  IF complete
             THEN <<b.char>> \o decode_ignore(SubSeq(bs, b.of + 1, Len(bs)))
             ELSE decode_ignore(Tail(bs))

\* len(text.encode("utf-8"))
byte_len(s) == Len(encode(s))

_truncate_utf8(text, max_bytes) ==
    IF max_bytes <= 0 THEN <<>>
    ELSE LET encoded == encode(text)
         IN  IF Len(encoded) <= max_bytes THEN text
             ELSE decode_ignore(SubSeq(encoded, 1, max_bytes))

\* str.splitlines(keepends=True): the lines with their line breaks.
RECURSIVE splitlines_keepends_from(_, _, _)
splitlines_keepends_from(s, i, cur) ==
    IF i > Len(s)
    THEN IF cur = <<>> THEN <<>> ELSE <<cur>>
    ELSE IF s[i] \in LineBreaks
         THEN IF s[i] = "\r" /\ i < Len(s) /\ s[i + 1] = "\n"
              THEN <<cur \o <<"\r", "\n">> >>
                   \o splitlines_keepends_from(s, i + 2, <<>>)
              ELSE <<Append(cur, s[i])>>
                   \o splitlines_keepends_from(s, i + 1, <<>>)
         ELSE splitlines_keepends_from(s, i + 1, Append(cur, s[i]))

splitlines_keepends(s) == splitlines_keepends_from(s, 1, <<>>)

\* "".join(lines)
RECURSIVE join(_)
join(ls) == IF ls = <<>> THEN <<>> ELSE Head(ls) \o join(Tail(ls))

\* str.rstrip("\n")
RECURSIVE rstrip_newlines(_)
rstrip_newlines(s) ==
    IF s # <<>> /\ s[Len(s)] = "\n"
    THEN rstrip_newlines(SubSeq(s, 1, Len(s) - 1))
    ELSE s

digit_value(c) ==
    CHOOSE d \in 0..9 : <<"0", "1", "2", "3", "4", "5", "6", "7", "8", "9">>[d + 1] = c

RECURSIVE digits_value(_, _)
digits_value(s, acc) ==
    IF s = <<>> THEN acc ELSE digits_value(Tail(s), 10 * acc + digit_value(Head(s)))

\* int(raw.strip()): decimal digits after an optional sign; anything else
\* raises ValueError, given as Nothing.
int_of(raw) ==
    LET s == strip(raw)
        signed == s # <<>> /\ Head(s) \in {"+", "-"}
        ds == IF signed THEN Tail(s) ELSE s
    IN  IF ds = <<>> \/ \E k \in DOMAIN ds : ds[k] \notin Digits THEN Nothing
        ELSE IF signed /\ Head(s) = "-" THEN Some(0 - digits_value(ds, 0))
        ELSE Some(digits_value(ds, 0))

\* _env_limit(name, default), `raw` being os.environ.get(name): Nothing for
\* a variable that is not set, Some(text) for one that is.  The result is
\* Some(limit), or Nothing for no limit.
_env_limit(raw, default) ==
    IF raw = Nothing THEN Some(default)
    ELSE LET value == int_of(raw[1])
         IN  IF value = Nothing THEN Some(default)
             ELSE IF value[1] <= 0 THEN Nothing
             ELSE value

Max(a, b) == IF a >= b THEN a ELSE b

\* The steps of _cap_comment_body carry the body and the `truncated` flag.
\* `if len(lines) > max_lines:` for the lines of the body.
take_lines(body, lines, most) ==
    IF Len(lines) > most
    THEN [body |-> join(SubSeq(lines, 1, most)), truncated |-> TRUE]
    ELSE [body |-> body, truncated |-> FALSE]

\* `if max_lines is not None:`
cap_lines(body, max_lines) ==
    IF max_lines = Nothing THEN [body |-> body, truncated |-> FALSE]
    ELSE take_lines(body, splitlines_keepends(body), max_lines[1])

\* A byte cut that does not set `truncated`.
cut_body_silently(capped, max_body_bytes) ==
    [body |-> _truncate_utf8(capped.body, max_body_bytes),
     truncated |-> capped.truncated]

\* `if len(body.encode("utf-8")) > max_body_bytes:`
cut_body(capped, max_body_bytes) ==
    IF byte_len(capped.body) > max_body_bytes
    THEN [body |-> _truncate_utf8(capped.body, max_body_bytes),
          truncated |-> TRUE]
    ELSE capped

\* `if truncated:` inside the byte cap: room for the notice.
cut_for_notice(capped, max_body_bytes) ==
    IF capped.truncated
    THEN [body |-> _truncate_utf8(capped.body,
                       Max(0, max_body_bytes - byte_len(TRUNCATED_NOTICE))),
          truncated |-> TRUE]
    ELSE capped

\* `if max_bytes is not None:`
cap_bytes(capped, max_bytes, affix_bytes) ==
    IF max_bytes = Nothing THEN capped
    ELSE cut_for_notice(cut_body(capped, Max(0, max_bytes[1] - affix_bytes)),
                        Max(0, max_bytes[1] - affix_bytes))

\* `if truncated:` at the end.
add_notice(capped) ==
    IF capped.truncated
    THEN rstrip_newlines(capped.body) \o TRUNCATED_NOTICE
    ELSE capped.body

\* _cap_comment_body(body=, prefix=, suffix=); env gives the two
\* BEADSFLOW_MAX_COMMENT_* variables of os.environ.
_cap_comment_body(body, prefix, suffix, env) ==
    add_notice(
        cap_bytes(
            cap_lines(body,
                      _env_limit(env.BEADSFLOW_MAX_COMMENT_LINES,
                                 DEFAULT_MAX_COMMENT_LINES)),
            _env_limit(env.BEADSFLOW_MAX_COMMENT_BYTES,
                       DEFAULT_MAX_COMMENT_BYTES),
            byte_len(prefix) + byte_len(suffix)))
(***************************************************************************)
(* The marker parser of command output (section 4.1 of the design):        *)
(* select.py has no marker_from_text, the run loop calls it.               *)
(***************************************************************************)

ReadyForReviewLower == lower(ReadyForReviewPrefix)

\* A leading "- " is dropped.
drop_bullet(s) ==
    IF startswith(s, <<"-", " ">>) THEN lstrip(SubSeq(s, 3, Len(s))) ELSE s

endswith(s, suffix) ==
    Len(s) >= Len(suffix)
    /\ SubSeq(s, Len(s) - Len(suffix) + 1, Len(s)) = suffix

\* One layer of `open` in front is dropped, and the same at the end when it
\* is there.
drop_layer(s, open) ==
    LET t == SubSeq(s, Len(open) + 1, Len(s))
    IN  IF endswith(t, open) THEN SubSeq(t, 1, Len(t) - Len(open)) ELSE t

unwrap_markdown(s) ==
    LET t == drop_bullet(s)
    IN  IF startswith(t, <<"*", "*">>) THEN drop_layer(t, <<"*", "*">>)
        ELSE IF startswith(t, <<"*">>) THEN drop_layer(t, <<"*">>)
        ELSE IF startswith(t, <<"BACKTICK">>) THEN drop_layer(t, <<"BACKTICK">>)
        ELSE t

\* The three patterns, in order, on the unwrapped first non-blank line.
marker_of_unwrapped(u) ==
    IF startswith(u, ReadyForReviewPrefix) THEN READY_FOR_REVIEW
    ELSE IF _is_lgtm_line(u) THEN LGTM
    ELSE IF _is_changes_requested_line(u) THEN CHANGES_REQUESTED
    ELSE None

RECURSIVE marker_text_scan(_, _)
marker_text_scan(lines, i) ==
    IF i > Len(lines) THEN None
    ELSE LET first == strip(lines[i])
         IN  IF first = <<>> THEN marker_text_scan(lines, i + 1)
             ELSE marker_of_unwrapped(strip(unwrap_markdown(first)))

marker_from_text(text) == marker_text_scan(splitlines(text), 1)

(***************************************************************************)
(* Diagnostics of the run loop (runner.py).                                *)
(***************************************************************************)

\* str(n) of an int.
RECURSIVE nat_str(_)
nat_str(n) ==
    LET d == <<"0", "1", "2", "3", "4", "5", "6", "7", "8", "9">>[(n % 10) + 1]
    IN  IF n < 10 THEN <<d>> ELSE Append(nat_str(n \div 10), d)

int_str(n) == IF n < 0 THEN <<"-">> \o nat_str(0 - n) ELSE nat_str(n)

\* `phase` of _run_profile_command: "implementer" or "reviewer".
IMPLEMENTER ==
    <<"i", "m", "p", "l", "e", "m", "e", "n", "t", "e", "r">>

REVIEWER ==
    <<"r", "e", "v", "i", "e", "w", "e", "r">>

\* str.capitalize() of a phase name.
capitalize(s) ==
    IF s = <<>> THEN s ELSE <<char_upper(Head(s))>> \o lower(Tail(s))

\* The length an excerpt is cut at.
EXCERPT_LIMIT == 1000

\* if len(excerpt) > 1000: excerpt = excerpt[:1000] + ELLIPSIS
excerpt_of(s) ==
    IF Len(s) > EXCERPT_LIMIT
    THEN Append(SubSeq(s, 1, EXCERPT_LIMIT), ELLIPSIS)
    ELSE s

CommandFailedText ==
    <<" ", "c", "o", "m", "m", "a", "n", "d", " ", "f", "a", "i", "l", "e",
      "d", " ", "(", "e", "x", "i", "t", " ">>

LogHeading ==
    <<"\n", "\n", "L", "o", "g", ":", "\n">>

OutputHeading ==
    <<"\n", "\n", "O", "u", "t", "p", "u", "t", ":", "\n">>

\* A failure message without the path of the log.
_format_failure_without_log(phase_name, result, log_path) ==
    phase_name \o CommandFailedText \o int_str(result.returncode) \o <<")", ".">>

\* _format_failure(phase, result, log_path=log_path)
_format_failure(phase_name, result, log_path) ==
    LET stderr == strip(result.stderr)
        stdout == strip(result.stdout)
        excerpt == excerpt_of(IF stderr # <<>> THEN stderr ELSE stdout)
    IN  phase_name \o CommandFailedText \o int_str(result.returncode) \o <<")", ".">>
        \o LogHeading \o log_path
        \o (IF excerpt # <<>> THEN OutputHeading \o excerpt ELSE <<>>)

\* " ".join(argv)
RECURSIVE join_spaces(_)
join_spaces(argv) ==
    IF argv = <<>> THEN <<>>
    ELSE IF Len(argv) = 1 THEN argv[1]
    ELSE argv[1] \o <<" ">> \o join_spaces(Tail(argv))

\* textwrap.indent(text, "  "): every line that is not blank gets the prefix.
RECURSIVE indent_lines(_)
indent_lines(ls) ==
    IF ls = <<>> THEN <<>>
    ELSE (IF strip(Head(ls)) # <<>> THEN <<" ", " ">> \o Head(ls) ELSE Head(ls))
         \o indent_lines(Tail(ls))

indent(text) == indent_lines(splitlines_keepends(text))

\* time.strftime("%Y%m%d-%H%M%S") at the time of the failure.
Timestamp ==
    <<"2", "0", "2", "5", "0", "1", "0", "1", "-", "0", "0", "0", "0", "0",
      "0">>

\* repo_paths.beads_dir / "logs" / "beadsflow"
LogsDir ==
    <<".", "b", "e", "a", "d", "s", "/", "l", "o", "g", "s", "/", "b", "e",
      "a", "d", "s", "f", "l", "o", "w", "/">>

\* The path of _write_command_log.
log_path_of(issue_id, phase_name) ==
    LogsDir \o issue_id \o <<".">> \o phase_name \o <<".">> \o Timestamp
    \o <<".", "l", "o", "g">>

\* The content of _write_command_log: the lines joined by "\n".
log_content(epic_id, issue_id, phase_name, result) ==
    JoinLines(<<
        <<"p", "h", "a", "s", "e", "=">> \o phase_name,
        <<"i", "s", "s", "u", "e", "_", "i", "d", "=">> \o issue_id,
        <<"e", "p", "i", "c", "_", "i", "d", "=">> \o epic_id,
        <<"r", "e", "t", "u", "r", "n", "c", "o", "d", "e", "=">>
            \o int_str(result.returncode),
        <<>>,
        <<"a", "r", "g", "v", ":">>,
        indent(join_spaces(result.argv)),
        <<>>,
        <<"s", "t", "d", "o", "u", "t", ":">>,
        indent(rstrip_newlines(result.stdout)),
        <<>>,
        <<"s", "t", "d", "e", "r", "r", ":">>,
        indent(rstrip_newlines(result.stderr)),
        <<>> >>)

\* The messages of the CommandError and ConfigError exceptions and the
\* comments of the failure paths.
NoStdoutText ==
    <<" ", "p", "r", "o", "d", "u", "c", "e", "d", " ", "n", "o", " ", "s",
      "t", "d", "o", "u", "t", " ", "t", "o", " ", "p", "o", "s", "t", " ",
      "a", "s", " ", "a", " ", "c", "o", "m", "m", "e", "n", "t">>

MissingMarkerText ==
    <<" ", "o", "u", "t", "p", "u", "t", " ", "m", "i", "s", "s", "i", "n",
      "g", " ", "e", "x", "p", "e", "c", "t", "e", "d", " ", "m", "a", "r",
      "k", "e", "r", ".", "\n", "\n", "O", "u", "t", "p", "u", "t", ":",
      "\n">>

NoChangesComment ==
    <<"I", "m", "p", "l", "e", "m", "e", "n", "t", "e", "r", " ", "c", "o",
      "m", "p", "l", "e", "t", "e", "d", " ", "b", "u", "t", " ", "d", "i",
      "d", " ", "n", "o", "t", " ", "p", "r", "o", "d", "u", "c", "e", " ",
      "w", "o", "r", "k", "i", "n", "g", "-", "t", "r", "e", "e", " ", "c",
      "h", "a", "n", "g", "e", "s", ";", " ", "s", "t", "o", "p", "p", "i",
      "n", "g", ".">>

NoChangesError ==
    <<"I", "m", "p", "l", "e", "m", "e", "n", "t", "e", "r", " ", "p", "r",
      "o", "d", "u", "c", "e", "d", " ", "n", "o", " ", "w", "o", "r", "k",
      "i", "n", "g", "-", "t", "r", "e", "e", " ", "c", "h", "a", "n", "g",
      "e", "s">>

ImplementerPhaseComment ==
    <<"I", "m", "p", "l", "e", "m", "e", "n", "t", "e", "r", " ", "c", "o",
      "m", "p", "l", "e", "t", "e", "d", " ", "b", "u", "t", " ", "d", "i",
      "d", " ", "n", "o", "t", " ", "m", "a", "r", "k", " ", "BACKTICK",
      "R", "e", "a", "d", "y", " ", "f", "o", "r", " ", "r", "e", "v", "i",
      "e", "w", ":", "BACKTICK", ";", " ", "s", "t", "o", "p", "p", "i",
      "n", "g", ".">>

ImplementerPhaseError ==
    <<"I", "m", "p", "l", "e", "m", "e", "n", "t", "e", "r", " ", "d", "i",
      "d", " ", "n", "o", "t", " ", "m", "a", "r", "k", " ", "R", "e", "a",
      "d", "y", " ", "f", "o", "r", " ", "r", "e", "v", "i", "e", "w">>

ReviewerPhaseComment ==
    <<"R", "e", "v", "i", "e", "w", "e", "r", " ", "c", "o", "m", "p", "l",
      "e", "t", "e", "d", " ", "b", "u", "t", " ", "d", "i", "d", " ", "n",
      "o", "t", " ", "c", "o", "m", "m", "e", "n", "t", " ", "BACKTICK",
      "L", "G", "T", "M", "BACKTICK", " ", "o", "r", " ", "BACKTICK", "C",
      "h", "a", "n", "g", "e", "s", " ", "r", "e", "q", "u", "e", "s", "t",
      "e", "d", ":", "BACKTICK", ";", " ", "s", "t", "o", "p", "p", "i",
      "n", "g", ".">>

ReviewerPhaseError ==
    <<"R", "e", "v", "i", "e", "w", "e", "r", " ", "d", "i", "d", " ", "n",
      "o", "t", " ", "p", "r", "o", "d", "u", "c", "e", " ", "e", "x", "p",
      "e", "c", "t", "e", "d", " ", "m", "a", "r", "k", "e", "r">>

GitMissingError ==
    <<"r", "e", "q", "u", "i", "r", "e", "_", "g", "i", "t", "_", "c", "h",
      "a", "n", "g", "e", "s", " ", "i", "s", " ", "e", "n", "a", "b", "l",
      "e", "d", " ", "b", "u", "t", " ", "g", "i", "t", " ", "i", "s", " ",
      "n", "o", "t", " ", "a", "v", "a", "i", "l", "a", "b", "l", "e">>

NotAnEpicText ==
    <<" ", "i", "s", " ", "n", "o", "t", " ", "a", "n", " ", "e", "p", "i",
      "c">>

MaxIterationsText ==
    <<"R", "e", "a", "c", "h", "e", "d", " ", "m", "a", "x", "_", "i", "t",
      "e", "r", "a", "t", "i", "o", "n", "s", "=">>

FailedWithCodeText ==
    <<" ", "f", "a", "i", "l", "e", "d", " ", "w", "i", "t", "h", " ", "c",
      "o", "d", "e", " ">>

LogSuffixOpen ==
    <<" ", "(", "l", "o", "g", ":", " ">>

NoProfileSelectedText(kind) ==
    <<"N", "o", " ">> \o kind
    \o <<" ", "s", "e", "l", "e", "c", "t", "e", "d", " ", "(", "s", "e", "t",
         " ", "-", "-">> \o kind
    \o <<" ", "o", "r", " ", "B", "E", "A", "D", "S", "F", "L", "O", "W", "_">>
    \o upper(kind) \o <<")">>

UnknownProfileText(kind, name) ==
    <<"U", "n", "k", "n", "o", "w", "n", " ">> \o kind
    \o <<" ", "p", "r", "o", "f", "i", "l", "e", ":", " ">> \o name

(***************************************************************************)
(* The tracker as the run loop sees it (beads_cli.py, runner.py).          *)
(***************************************************************************)

EPIC == "epic"
TASK == "task"

\* The IssueType values of the model.
IssueType == {EPIC, TASK}

\* The created_at the tracker gives the next comment: later than every
\* comment it holds.
NextStamp(tracker) ==
    1 + Cardinality(UNION {
            {<<id, k>> : k \in DOMAIN tracker[id].comments} : id \in DOMAIN tracker})

\* BeadsCli.get_issue(issue_id): the Issue of the tracker's record, its
\* dependencies and dependents with the status they have now.
get_issue(tracker, issue_id) ==
    LET raw == tracker[issue_id]
    IN  [id |-> issue_id,
         issue_type |-> raw.issue_type,
         status |-> raw.status,
         dependencies |->
             [k \in DOMAIN raw.dependencies |->
                 [id |-> raw.dependencies[k],
                  status |-> tracker[raw.dependencies[k]].status]],
         dependents |->
             [k \in DOMAIN raw.dependents |->
                 [id |-> raw.dependents[k],
                  status |-> tracker[raw.dependents[k]].status,
                  priority |-> tracker[raw.dependents[k]].priority,
                  created_at |-> tracker[raw.dependents[k]].created_at]],
         comments |-> raw.comments]

\* A tracker that puts an issue in progress when it is commented on.
add_comment_and_start(tracker, issue_id, text) ==
    [tracker EXCEPT ![issue_id].comments =
                        Append(@, [id |-> Len(@) + 1,
                                   created_at |-> NextStamp(tracker),
                                   text |-> text]),
                    ![issue_id].status = IN_PROGRESS]

\* BeadsCli.comment(issue_id, text), the bd call succeeding.
add_comment(tracker, issue_id, text) ==
    [tracker EXCEPT ![issue_id].comments =
        Append(@, [id |-> Len(@) + 1,
                   created_at |-> NextStamp(tracker),
                   text |-> text])]

\* BeadsCli.close(issue_id), the bd call succeeding.
close_issue(tracker, issue_id) ==
    [tracker EXCEPT ![issue_id].status = CLOSED]

(***************************************************************************)
(* Epic run loop (runner.py).                                              *)
(***************************************************************************)

\* The exceptions of application/errors.py.
ConfigError == "ConfigError"
CommandError == "CommandError"
BeadsError == "BeadsError"

\* What run has come to: still running, returned a code, raised.
Running == [kind |-> "running"]
ReturnedCode(code) == [kind |-> "returned", code |-> code]
Raised(error, message) == [kind |-> "raised", error |-> error, message |-> message]

\* The effects of the loop, in the order they happen.
GetIssueEvent(id, ok) == [op |-> "get_issue", id |-> id, ok |-> ok]
CloseEvent(id, ok) == [op |-> "close", id |-> id, ok |-> ok]
CommentEvent(id, text, ok) == [op |-> "comment", id |-> id, text |-> text, ok |-> ok]
ExecEvent(phase_name, id, argv) ==
    [op |-> "exec", phase |-> phase_name, id |-> id, argv |-> argv]
WriteLogEvent(path, content) == [op |-> "write_log", path |-> path, content |-> content]
LoggerErrorEvent(message) == [op |-> "logger.error", message |-> message]
GitSignatureEvent == [op |-> "git_signature"]
SleepEvent(ms) == [op |-> "sleep", ms |-> ms]
IterationEvent(n) == [op |-> "iteration", n |-> n]

\* A completeness test that never holds.
_is_epic_complete_never(epic) == FALSE

\* _is_epic_complete(epic)
_is_epic_complete(epic) ==
    \A k \in DOMAIN epic.dependents : epic.dependents[k].status = CLOSED

\* The calls of is_ready during select_next_child, from the i-th sorted
\* eligible child on: a child that is not in the cache is fetched and
\* cached; the scan ends at the first ready child.
RECURSIVE is_ready_fetches(_, _, _, _, _)
is_ready_fetches(tracker, scs, i, child_ids, cache) ==
    IF i > Len(scs) THEN <<>>
    ELSE LET fetch == IF scs[i].id \in cache THEN <<>> ELSE <<scs[i].id>>
         IN  IF _is_child_ready(get_issue(tracker, scs[i].id), child_ids)
             THEN fetch
             ELSE fetch \o is_ready_fetches(tracker, scs, i + 1, child_ids,
                                            cache \cup {scs[i].id})

\* A lookup of the selected child that goes to the tracker again.
selected_fetch_again(chosen, cache) ==
    IF chosen = Nothing THEN <<>> ELSE <<chosen[1].id>>

\* `cache.get(selected.id) or self.beads.get_issue(selected.id)`: the fetch
\* it makes, none for a child that is in the cache (an Issue is truthy).
selected_fetch(chosen, cache) ==
    IF chosen = Nothing \/ chosen[1].id \in cache THEN <<>>
    ELSE <<chosen[1].id>>

\* The ids fetched by the calls of is_ready and the lookup of the selected
\* child; the cache after the calls of is_ready holds the ids they fetched.
selection_fetches(readiness, chosen) ==
    readiness \o selected_fetch(chosen, Range(readiness))

\* EpicRunLoop._select_next_child(epic): the Issue selected, or Nothing, and
\* the ids fetched on the way.
_select_next_child(tracker, epic, resume) ==
    LET child_ids == {epic.dependents[k].id : k \in DOMAIN epic.dependents}
        is_ready == {id \in child_ids :
                        _is_child_ready(get_issue(tracker, id), child_ids)}
        IsEligible(c) == c.status \in eligible_statuses(resume)
        scs == sorted_by_priority_key(SelectSeq(epic.dependents, IsEligible))
        chosen == select_next_child(epic.dependents, resume, is_ready)
    IN  [selected |->
             IF chosen = Nothing THEN Nothing
             ELSE Some(get_issue(tracker, chosen[1].id)),
         fetched |->
             selection_fetches(is_ready_fetches(tracker, scs, 1, child_ids, {}),
                               chosen)]

\* dict.get(name) of a profile table.
profile_get(profiles, name) ==
    IF name \in DOMAIN profiles THEN Some(profiles[name]) ELSE Nothing

\* a lookup that falls back to a profile of the table when the name is
\* unknown,
_require_profile_with_fallback(name, kind, profiles) ==
    IF name = Nothing
    THEN [ok |-> FALSE, message |-> NoProfileSelectedText(kind)]
    ELSE IF profile_get(profiles, name[1]) = Nothing
    THEN [ok |-> TRUE, profile |-> profiles[CHOOSE n \in DOMAIN profiles : TRUE]]
    ELSE [ok |-> TRUE, profile |-> profiles[name[1]]]

\* _require_profile(name=, kind=, profiles=): the profile, or the message of
\* the ConfigError.
_require_profile(name, kind, profiles) ==
    IF name = Nothing
    THEN [ok |-> FALSE, message |-> NoProfileSelectedText(kind)]
    ELSE IF profile_get(profiles, name[1]) = Nothing
    THEN [ok |-> FALSE, message |-> UnknownProfileText(kind, name[1])]
    ELSE [ok |-> TRUE, profile |-> profiles[name[1]]]

\* str.replace(old, new)
RECURSIVE replace(_, _, _)
replace(s, old, new) ==
    IF s = <<>> THEN <<>>
    ELSE IF startswith(s, old)
    THEN new \o replace(SubSeq(s, Len(old) + 1, Len(s)), old, new)
    ELSE <<Head(s)>> \o replace(Tail(s), old, new)

EpicIdPlaceholder == <<"{", "e", "p", "i", "c", "_", "i", "d", "}">>

IssueIdPlaceholder == <<"{", "i", "s", "s", "u", "e", "_", "i", "d", "}">>

\* profile.command.render(epic_id=, issue_id=): the placeholders replaced
\* in every token of the template.
render(template, epic_id, issue_id) ==
    [k \in DOMAIN template |->
        replace(replace(template[k], EpicIdPlaceholder, epic_id),
                IssueIdPlaceholder, issue_id)]

\* The id of the epic the loop is run on.
EpicId == <<"e", "1">>

\* The message of a tracker error (the text bd printed is of no interest).
BdFailedText == <<"b", "d", " ", "f", "a", "i", "l", "e", "d">>

\* time.sleep(0.5) of _wait_for_phase, in milliseconds.
POLL_SLEEP_MS == 500

\* The locals of _run_implementer and _run_reviewer: set when the command
\* is started, `result` when it has exited.
NoFrame == [issue_id |-> <<>>]

\* _run_implementer(issue_id=) up to the start of the command: what the
\* iteration does next.
start_implementer(issue_id) ==
    LET required ==
            _require_profile(implementer_name, IMPLEMENTER, settings.implementers)
        implementer == required.profile
    IN  IF ~required.ok
        THEN [kind |-> "raise", error |-> ConfigError,
              message |-> required.message, log |-> <<>>]
        ELSE IF implementer.require_git_changes /\ ~git_available
        THEN [kind |-> "raise", error |-> CommandError,
              message |-> GitMissingError, log |-> <<>>]
        ELSE [kind |-> "exec",
              log |-> IF implementer.require_git_changes
                      THEN <<GitSignatureEvent>> ELSE <<>>,
              frame |->
                [issue_id |-> issue_id,
                 phase_name |-> IMPLEMENTER,
                 profile |-> implementer,
                 before_sig |-> IF implementer.require_git_changes
                                THEN Some(worktree) ELSE Nothing,
                 argv |-> render(implementer.command, EpicId, issue_id),
                 expected_markers |-> {READY_FOR_REVIEW},
                 expected |-> {REVIEW},
                 failure_comment |-> ImplementerPhaseComment,
                 error_message |-> ImplementerPhaseError,
                 result |-> Nothing]]

\* _run_reviewer(issue_id=) up to the start of the command.
start_reviewer(issue_id) ==
    LET required ==
            _require_profile(reviewer_name, REVIEWER, settings.reviewers)
        reviewer == required.profile
    IN  IF ~required.ok
        THEN [kind |-> "raise", error |-> ConfigError,
              message |-> required.message, log |-> <<>>]
        ELSE [kind |-> "exec",
              log |-> <<>>,
              frame |->
                [issue_id |-> issue_id,
                 phase_name |-> REVIEWER,
                 profile |-> reviewer,
                 before_sig |-> Nothing,
                 argv |-> render(reviewer.command, EpicId, issue_id),
                 expected_markers |-> {LGTM, CHANGES_REQUESTED},
                 expected |-> {CLOSE, IMPLEMENT},
                 failure_comment |-> ReviewerPhaseComment,
                 error_message |-> ReviewerPhaseError,
                 result |-> Nothing]]

\* determine_next_work(issue_id=, comments=)
determine_next_work(issue_id, cs) ==
    [issue_id |-> issue_id, phase |-> determine_phase_from_comments(cs)]

\* A dispatch that starts the reviewer for a CLOSE phase.
dispatch_reviews_on_close(next_work) ==
    CASE next_work.phase = CLOSE -> start_reviewer(next_work.issue_id)
      [] next_work.phase = IMPLEMENT -> start_implementer(next_work.issue_id)
      [] next_work.phase = REVIEW -> start_reviewer(next_work.issue_id)

\* The match statement of _run_one_iteration.
dispatch(next_work) ==
    CASE next_work.phase = CLOSE ->
            [kind |-> "close", issue_id |-> next_work.issue_id, log |-> <<>>]
      [] next_work.phase = IMPLEMENT -> start_implementer(next_work.issue_id)
      [] next_work.phase = REVIEW -> start_reviewer(next_work.issue_id)

\* The iterations of `for _iteration in range(1, max_iterations + 1)`:
\* whether another one follows `done` iterations.
has_next_iteration_one_more(done, most) == done <= most

\* and one fewer.
has_next_iteration_one_fewer(done, most) == done + 1 < most

has_next_iteration(done, most) == done < most

\* _run_one_iteration on the tracker state `tracker`, every get_issue
\* succeeding: the ids fetched, in order, and what the iteration does after
\* the last fetch.  From the end of the method to its start:
\* the match statement on the phase of the selected child,
iteration_dispatch(tracker) ==
    LET epic == get_issue(tracker, EpicId)
        selection ==
            _select_next_child(tracker, epic, settings.run.resume_in_progress)
        chosen == selection.selected[1]
    IN  [fetched |-> <<EpicId>> \o selection.fetched]
        @@ dispatch(determine_next_work(chosen.id, chosen.comments))

\* an iteration that dispatches in a dry run too,
iteration_selected_ignoring_dry_run(tracker) == iteration_dispatch(tracker)

\* `if dry_run:` _log_dry_run writes to the logger only,
iteration_selected(tracker) ==
    IF dry_run
    THEN [fetched |-> iteration_dispatch(tracker).fetched,
          kind |-> "return", code |-> 0, log |-> <<>>]
    ELSE iteration_dispatch(tracker)

\* an iteration that returns 0 when no child is selected,
iteration_incomplete_returning_zero(tracker) ==
    LET epic == get_issue(tracker, EpicId)
        selection ==
            _select_next_child(tracker, epic, settings.run.resume_in_progress)
    IN  IF selection.selected = Nothing
        THEN [fetched |-> <<EpicId>> \o selection.fetched,
              kind |-> "return", code |-> 0, log |-> <<>>]
        ELSE iteration_selected(tracker)

\* `if selected is None:`
iteration_incomplete(tracker) ==
    LET epic == get_issue(tracker, EpicId)
        selection ==
            _select_next_child(tracker, epic, settings.run.resume_in_progress)
    IN  IF selection.selected = Nothing
        THEN [fetched |-> <<EpicId>> \o selection.fetched,
              kind |-> "return", code |-> 2, log |-> <<>>]
        ELSE iteration_selected(tracker)

\* `if self._is_epic_complete(epic):`
iteration_of_epic(tracker) ==
    IF _is_epic_complete(get_issue(tracker, EpicId))
    THEN [fetched |-> <<EpicId>>, kind |-> "return", code |-> 0, log |-> <<>>]
    ELSE iteration_incomplete(tracker)

\* an iteration that does not look at the type of the target,
_run_one_iteration_without_type_check(tracker) == iteration_of_epic(tracker)

\* and `if epic.issue_type is not IssueType.EPIC:`.
_run_one_iteration(tracker) ==
    IF get_issue(tracker, EpicId).issue_type # EPIC
    THEN [fetched |-> <<EpicId>>, kind |-> "raise", error |-> ConfigError,
          message |-> EpicId \o NotAnEpicText, log |-> <<>>]
    ELSE iteration_of_epic(tracker)

\* A check whose message starts with the output,
checked_comment_output_first(excerpt, comment_text, expected_markers, phase_name) ==
    IF excerpt = <<>>
    THEN [ok |-> FALSE, message |-> phase_name \o NoStdoutText]
    ELSE IF marker_from_text(comment_text) \notin expected_markers
    THEN [ok |-> FALSE,
          message |-> excerpt_of(excerpt) \o <<"\n", "\n">> \o phase_name
                      \o MissingMarkerText]
    ELSE [ok |-> TRUE, comment_text |-> comment_text]

\* a check of the output that takes any text that is not blank,
checked_comment_any_marker(excerpt, comment_text, expected_markers, phase_name) ==
    IF excerpt = <<>>
    THEN [ok |-> FALSE, message |-> phase_name \o NoStdoutText]
    ELSE [ok |-> TRUE, comment_text |-> comment_text]

\* and one that looks at the marker only.
checked_comment_marker_only(excerpt, comment_text, expected_markers, phase_name) ==
    IF marker_from_text(comment_text) \notin expected_markers
    THEN [ok |-> FALSE,
          message |-> phase_name \o MissingMarkerText \o excerpt_of(excerpt)]
    ELSE [ok |-> TRUE, comment_text |-> comment_text]

\* _comment_from_stdout after `excerpt = body.strip()` and
\* `comment_text = f"{prefix}{body}{suffix}"`: the comment to post, or the
\* message of the CommandError it raises.
checked_comment(excerpt, comment_text, expected_markers, phase_name) ==
    IF excerpt = <<>>
    THEN [ok |-> FALSE, message |-> phase_name \o NoStdoutText]
    ELSE IF marker_from_text(comment_text) \notin expected_markers
    THEN [ok |-> FALSE,
          message |-> phase_name \o MissingMarkerText \o excerpt_of(excerpt)]
    ELSE [ok |-> TRUE, comment_text |-> comment_text]

_comment_from_stdout(result, prefix, suffix, expected_markers, phase_name) ==
    checked_comment(
        strip(result.stdout),
        prefix \o _cap_comment_body(result.stdout, prefix, suffix, environ)
               \o suffix,
        expected_markers, phase_name)

\* What follows the exit of the command of frame f is a record of the
\* effects before the tracker call (log), the comment posted (post), whether
\* a failure of that post is caught and logged (guarded), and what follows
\* the post: the phase confirmation ("wait") or a CommandError ("raise").

\* _run_profile_command after a return code other than 0.
failed_command(f, result, log_path, failure) ==
    [log |-> <<WriteLogEvent(log_path,
                             log_content(EpicId, f.issue_id, f.phase_name,
                                         result)),
               LoggerErrorEvent(failure)>>,
     post |-> Some(failure), guarded |-> TRUE, then |-> "raise",
     message |->
         capitalize(f.phase_name) \o FailedWithCodeText
         \o int_str(result.returncode) \o LogSuffixOpen \o log_path \o <<")">>]

\* A write-back that fetches the epic before it posts the comment.
promoted_stdout_after_fetch(git, promoted) ==
    IF promoted.ok
    THEN [log |-> git \o <<GetIssueEvent(EpicId, TRUE)>>,
          post |-> Some(promoted.comment_text),
          guarded |-> FALSE, then |-> "wait"]
    ELSE [log |-> git \o <<LoggerErrorEvent(promoted.message)>>,
          post |-> Some(promoted.message), guarded |-> TRUE,
          then |-> "raise", message |-> promoted.message]

\* _maybe_comment_from_stdout in comment mode "stdout", `git` being the
\* effects of _ensure_git_changes before it.
promoted_stdout(git, promoted) ==
    IF promoted.ok
    THEN [log |-> git, post |-> Some(promoted.comment_text),
          guarded |-> FALSE, then |-> "wait"]
    ELSE \* except CommandError
         [log |-> git \o <<LoggerErrorEvent(promoted.message)>>,
          post |-> Some(promoted.message), guarded |-> TRUE,
          then |-> "raise", message |-> promoted.message]

\* The effects of an _ensure_git_changes that returns.
git_check(f) == IF f.before_sig # Nothing THEN <<GitSignatureEvent>> ELSE <<>>

\* The rest of _run_implementer or _run_reviewer from the exit of the
\* command with CommandResult `result`, up to the tracker call, the working
\* tree then having the signature after_sig.
after_command(f, result, after_sig) ==
    IF result.returncode # 0
    THEN failed_command(f, result, log_path_of(f.issue_id, f.phase_name),
                        _format_failure(f.phase_name, result,
                                        log_path_of(f.issue_id, f.phase_name)))
    ELSE IF f.before_sig # Nothing /\ f.before_sig = Some(after_sig)
    THEN \* _ensure_git_changes: the signature did not change
         [log |-> <<GitSignatureEvent>>,
          post |-> Some(NoChangesComment), guarded |-> FALSE,
          then |-> "raise", message |-> NoChangesError]
    ELSE IF f.profile.comment_mode # "stdout"
    THEN [log |-> git_check(f), post |-> Nothing, guarded |-> FALSE,
          then |-> "wait"]
    ELSE promoted_stdout(
             git_check(f),
             _comment_from_stdout(result, f.profile.comment_prefix,
                                  f.profile.comment_suffix,
                                  f.expected_markers, f.phase_name))

(***************************************************************************)
(* The reviewer's _ensure_marker (review.py).                              *)
(***************************************************************************)

\* "Changes requested:\n\n(no review output)"
NoReviewOutputText ==
    <<"C", "h", "a", "n", "g", "e", "s", " ", "r", "e", "q", "u", "e",
      "s", "t", "e", "d", ":", "\n", "\n", "(", "n", "o", " ", "r", "e",
      "v", "i", "e", "w", " ", "o", "u", "t", "p", "u", "t", ")">>

\* The first loop of _ensure_marker over `lines`, from the i-th: Some(text)
\* when it returns text, Nothing when it ends or breaks.
RECURSIVE leading_marker_loop(_, _, _)
leading_marker_loop(body, lines, i) ==
    IF i > Len(lines) THEN Nothing
    ELSE IF strip(lines[i]) = <<>>
    THEN leading_marker_loop(body, lines, i + 1)
    ELSE IF _is_lgtm_line(lines[i]) \/ _is_changes_requested_line(lines[i])
    THEN IF strip(lines[1]) = strip(lines[i])
         THEN Some(body)
         ELSE Some(strip(lines[i]) \o <<"\n", "\n">> \o body)
    ELSE Nothing

\* The second loop and `if marker is None:`: the marker to put in front.
RECURSIVE later_marker_loop(_, _)
later_marker_loop(lines, i) ==
    IF i > Len(lines) THEN ChangesRequestedPrefix
    ELSE IF _is_lgtm_line(lines[i]) THEN LgtmWord
    ELSE IF _is_changes_requested_line(lines[i]) THEN ChangesRequestedPrefix
    ELSE later_marker_loop(lines, i + 1)

\* _ensure_marker after `lines = body.splitlines()`.
marked_body(body, lines, leading) ==
    IF leading # Nothing THEN leading[1]
    ELSE later_marker_loop(lines, 1) \o <<"\n", "\n">> \o body

\* an _ensure_marker that hands the output back as it is,
_ensure_marker_unchanged(output) == strip(output)

_ensure_marker(output) ==
    IF strip(output) = <<>> THEN NoReviewOutputText
    ELSE marked_body(strip(output), splitlines(strip(output)),
                     leading_marker_loop(strip(output),
                                         splitlines(strip(output)), 1))

(***************************************************************************)
(* The tracker calls of BeadsCli (beads_cli.py): bd is run, and run again  *)
(* after `bd sync --import-only` when the database is out of sync.         *)
(***************************************************************************)

\* "Database out of sync with JSONL"
OutOfSyncText ==
    <<"D", "a", "t", "a", "b", "a", "s", "e", " ", "o", "u", "t", " ",
      "o", "f", " ", "s", "y", "n", "c", " ", "w", "i", "t", "h", " ",
      "J", "S", "O", "N", "L">>

\* `part in s` for two texts.
text_in(part, s) ==
    \E k \in 0..(Len(s) - Len(part)) : SubSeq(s, k + 1, k + Len(part)) = part

\* BeadsCli._is_db_out_of_sync(stderr)
_is_db_out_of_sync(stderr) == text_in(OutOfSyncText, stderr)

\* The words of a bd command line.
BdWord == <<"b", "d">>
NoDaemonFlag == <<"-", "-", "n", "o", "-", "d", "a", "e", "m", "o", "n">>
NoDbFlag == <<"-", "-", "n", "o", "-", "d", "b">>
JsonFlag == <<"-", "-", "j", "s", "o", "n">>
ShowWord == <<"s", "h", "o", "w">>
CommentWord == <<"c", "o", "m", "m", "e", "n", "t">>
CloseWord == <<"c", "l", "o", "s", "e">>
SyncWord == <<"s", "y", "n", "c">>
ImportOnlyFlag == <<"-", "-", "i", "m", "p", "o", "r", "t", "-", "o", "n", "l", "y">>

\* BeadsCli._argv(*args)
_argv(no_db, args) ==
    <<BdWord, NoDaemonFlag>> \o (IF no_db THEN <<NoDbFlag>> ELSE <<>>) \o args

\* The argv of the method called: _run_json("show", issue_id) of get_issue,
\* and those of comment and close.
call_argv(call) ==
    CASE call.method = "get_issue" ->
             _argv(call.no_db, <<JsonFlag, ShowWord, call.issue_id>>)
      [] call.method = "comment" ->
             _argv(call.no_db, <<CommentWord, call.issue_id, call.text>>)
      [] call.method = "close" ->
             _argv(call.no_db, <<CloseWord, call.issue_id>>)

\* The argv of _sync_import_only.
sync_argv(call) == _argv(call.no_db, <<SyncWord, ImportOnlyFlag>>)

\* A BeadsError leaves the method; `raised_by` names the raise statement.
BdRaised(raised_by) ==
    [returned |-> FALSE, error |-> BeadsError, raised_by |-> raised_by]

\* What a method does with a CompletedProcess of return code 0: comment and
\* close return None; get_issue parses the output (json.loads), which must
\* be a list that is not empty, and returns the Issue of its first element.
returned_value(call, completed) ==
    IF call.method # "get_issue" THEN Returned(<<>>)
    ELSE IF ~completed.stdout.json THEN BdRaised("Invalid JSON from bd")
    ELSE IF completed.stdout.payload = <<>>
    THEN BdRaised("Unexpected bd show payload")
    ELSE Returned(completed.stdout.payload[1])

\* The BeadsError for a return code other than 0.
failed_value(call) ==
    CASE call.method = "get_issue" -> BdRaised("bd failed")
      [] call.method = "comment" -> BdRaised("bd comment failed")
      [] call.method = "close" -> BdRaised("bd close failed")

\* `if completed.returncode != 0:` after the first run of bd: what the
\* method does next.
after_first_run_without_resync(completed) ==
    IF completed.returncode = 0 THEN "return" ELSE "raise"

after_first_run(completed) ==
    IF completed.returncode = 0 THEN "return"
    ELSE IF _is_db_out_of_sync(strip(completed.stderr)) THEN "sync"
    ELSE "raise"

(***************************************************************************)
(* Idle values of each component's variables.                              *)
(***************************************************************************)

\* A Comment: id, text, created_at (its author is read nowhere).
NoComment == [id |-> 0, created_at |-> 0, text |-> <<>>]

\* An Issue, of which _is_child_ready reads the dependencies.
NoIssue == [id |-> <<>>, dependencies |-> <<>>]

MarkerIdle == comment = NoComment /\ parsed = Unset

PhaseIdle ==
    comments = <<>> /\ marker = Unset /\ phase = Unset /\ first_phase = Unset

SelectIdle ==
    /\ children = <<>>
    /\ resume_in_progress = FALSE
    /\ ready_ids = {}
    /\ selected = NotReturned

ReadyIdle == child = NoIssue /\ epic_child_ids = {} /\ ready = NotReturned

RunIdle ==
    /\ issues = <<>>
    /\ once = FALSE
    /\ dry_run = FALSE
    /\ max_iterations = 0
    /\ settings = <<>>
    /\ implementer_name = Nothing
    /\ reviewer_name = Nothing
    /\ environ = <<>>
    /\ git_available = FALSE
    /\ worktree = 0
    /\ pending = Nothing
    /\ pc = "idle"
    /\ iteration = 0
    /\ frame = NoFrame
    /\ polls = 0
    /\ last_phase = Unset
    /\ run_result = Running
    /\ events = <<>>

CapIdle ==
    /\ cap_body = <<>>
    /\ cap_prefix = <<>>
    /\ cap_suffix = <<>>
    /\ cap_environ = <<>>
    /\ cap_result = NotReturned

TruncateIdle ==
    trunc_text = <<>> /\ trunc_max_bytes = 0 /\ trunc_result = NotReturned

EnsureMarkerIdle == review_output = <<>> /\ ensured = NotReturned

BdIdle ==
    /\ bd_call = <<>>
    /\ bd_pc = "idle"
    /\ bd_runs = <<>>
    /\ bd_outcome = NotReturned

ToolIdle == CapIdle /\ TruncateIdle /\ EnsureMarkerIdle /\ BdIdle

(***************************************************************************)
(* Marker parser: inputs and specification.                                *)
(***************************************************************************)

\* The most lines of a composed comment text.
MaxLines == 3

\* Lines a comment is composed of: blank lines, marker lines in several
\* spellings, ordinary text.
LineSamples ==
    { <<>>,
      <<" ">>,
      <<"L", "G", "T", "M">>,
      <<"l", "g", "t", "m">>,
      <<"L", "G", "T", "M", ".">>,
      <<"L", "G", "T", "M", "x">>,
      <<"\t", " ", "L", "G", "T", "M", " ", "o", "k", " ">>,
      <<"R", "e", "a", "d", "y", " ", "f", "o", "r", " ", "r", "e", "v", "i",
        "e", "w", ":", " ", "d", "o", "n", "e">>,
      <<"C", "h", "a", "n", "g", "e", "s", " ", "r", "e", "q", "u", "e", "s",
        "t", "e", "d", ":", " ", "f", "i", "x">>,
      <<"c", "h", "a", "n", "g", "e", "s", " ", "r", "e", "q", "u", "e", "s",
        "t", "e", "d">>,
      <<"i", "n", "t", "r", "o", " ", "t", "e", "x", "t">> }

\* Markdown around a marker: emphasis, a code span, a list bullet.
Wrappers ==
    { [open |-> <<"*", "*">>, close |-> <<"*", "*">>],
      [open |-> <<"*">>, close |-> <<"*">>],
      [open |-> <<"BACKTICK">>, close |-> <<"BACKTICK">>],
      [open |-> <<"-", " ">>, close |-> <<>>] }

MarkerTokens == {ReadyForReviewPrefix, LgtmWord, ChangesRequestedPrefix}

Rests ==
    { <<>>,
      <<" ", "p", "l", "e", "a", "s", "e", " ", "u", "p", "d", "a", "t", "e">> }

Wrapped(w, token, rest) == w.open \o token \o w.close \o rest

MarkdownTexts ==
    {Wrapped(w, t, r) : w \in Wrappers, t \in MarkerTokens, r \in Rests}

\* "Some intro text\n\nLGTM\n\nMore details"
IntroThenLgtmText ==
    <<"S", "o", "m", "e", " ", "i", "n", "t", "r", "o", " ", "t", "e", "x",
      "t", "\n", "\n", "L", "G", "T", "M", "\n", "\n", "M", "o", "r", "e",
      " ", "d", "e", "t", "a", "i", "l", "s">>

\* Texts of the tests that are not composed above.
TestTexts ==
    { IntroThenLgtmText,
      <<"-", " ", "*", "*", "L", "G", "T", "M", "*", "*">>,
      <<"L", "G", "T", "M", "!">>,
      <<"\r", "\n", "L", "G", "T", "M", "\r", "\n", "t", "h", "a", "n", "k",
        "s", "\n">> }


\* A comment of up to MaxLines sample lines, or one of the markdown and test
\* texts.
InitMarker ==
    /\ \/ \E n \in 0..MaxLines : \E ls \in [1..n -> LineSamples] :
              comment = [id |-> 1, created_at |-> 1, text |-> JoinLines(ls)]
       \/ \E t \in MarkdownTexts \cup TestTexts :
              comment = [id |-> 1, created_at |-> 1, text |-> t]
    /\ parsed = Unset
    /\ PhaseIdle /\ SelectIdle /\ ReadyIdle /\ RunIdle /\ ToolIdle

\* marker_from_comment(comment)
ParseComment ==
    /\ parsed = Unset
    /\ parsed' = marker_from_comment(comment)
    /\ UNCHANGED comment
    /\ UNCHANGED <<phaseVars, selectVars, readyVars, runVars, toolVars>>

NextMarker == ParseComment

SpecMarker == InitMarker /\ [][NextMarker]_vars

(***************************************************************************)
(* Phase state machine: inputs and specification.                          *)
(***************************************************************************)

\* The most comments of an issue.
MaxComments == 3

\* created_at values; two comments may carry the same one.
CreatedAts == {1, 2}

\* One text per marker and one without a marker.
CommentTexts ==
    { <<"R", "e", "a", "d", "y", " ", "f", "o", "r", " ", "r", "e", "v", "i",
        "e", "w", ":">>,
      <<"C", "h", "a", "n", "g", "e", "s", " ", "r", "e", "q", "u", "e", "s",
        "t", "e", "d", ":">>,
      <<"L", "G", "T", "M">>,
      <<"o", "k">> }

Injective(f) == \A a, b \in DOMAIN f : f[a] = f[b] => a = b

\* The comments of an issue: up to MaxComments comments with the distinct
\* ids 1..n, passed in any order.
InitPhase ==
    /\ \E n \in 0..MaxComments :
         \E ids \in {f \in [1..n -> 1..n] : Injective(f)},
            ts \in [1..n -> CreatedAts],
            xs \in [1..n -> CommentTexts] :
                comments = [k \in 1..n |->
                    [id |-> ids[k], created_at |-> ts[k], text |-> xs[k]]]
    /\ marker = Unset
    /\ phase = Unset
    /\ first_phase = Unset
    /\ MarkerIdle /\ SelectIdle /\ ReadyIdle /\ RunIdle /\ ToolIdle

\* determine_phase_from_comments(comments)
DeterminePhase ==
    /\ phase = Unset
    /\ marker' = latest_marker(comments)
    /\ phase' = match_marker(marker')
    /\ UNCHANGED <<comments, first_phase>>
    /\ UNCHANGED <<markerVars, selectVars, readyVars, runVars, toolVars>>

Unmarked(cs) == {i \in 1..Len(cs) : marker_from_comment(cs[i]) = None}

\* The caller passes the same comments again with two comments that carry
\* no marker exchanged; the marker-carrying comments stay in place.
ReorderUnmarked ==
    /\ phase # Unset
    /\ first_phase = Unset
    /\ \E i, j \in Unmarked(comments) :
           /\ i < j
           /\ comments' = [comments EXCEPT ![i] = comments[j], ![j] = comments[i]]
    /\ first_phase' = phase
    /\ phase' = Unset
    /\ marker' = Unset
    /\ UNCHANGED <<markerVars, selectVars, readyVars, runVars, toolVars>>

NextPhase == DeterminePhase \/ ReorderUnmarked

SpecPhase == InitPhase /\ [][NextPhase]_vars

(***************************************************************************)
(* Child selector: inputs and specification.                               *)
(***************************************************************************)

\* The most dependents of the epic.
MaxChildren == 2

\* Issue ids: "b1" < "b10" < "b2" as Python compares them.
ChildIds == {<<"b", "1">>, <<"b", "1", "0">>, <<"b", "2">>}

Priorities == {0, 1}

\* The dependents of the epic: up to MaxChildren IssueSummary values with
\* distinct ids, passed in any order (the title is read nowhere).
InitSelect ==
    /\ \E n \in 0..MaxChildren :
         \E ids \in {f \in [1..n -> ChildIds] : Injective(f)},
            ss \in [1..n -> IssueStatus],
            ps \in [1..n -> Priorities],
            ts \in [1..n -> CreatedAts] :
                children = [k \in 1..n |->
                    [id |-> ids[k], status |-> ss[k],
                     priority |-> ps[k], created_at |-> ts[k]]]
    /\ resume_in_progress \in BOOLEAN
    /\ ready_ids \in SUBSET {children[k].id : k \in DOMAIN children}
    /\ selected = NotReturned
    /\ MarkerIdle /\ PhaseIdle /\ ReadyIdle /\ RunIdle /\ ToolIdle

\* select_next_child(children=..., resume_in_progress=..., is_ready=...)
SelectNextChild ==
    /\ selected = NotReturned
    /\ selected' =
           Returned(select_next_child(children, resume_in_progress, ready_ids))
    /\ UNCHANGED <<children, resume_in_progress, ready_ids>>
    /\ UNCHANGED <<markerVars, phaseVars, readyVars, runVars, toolVars>>

NextSelect == SelectNextChild

SpecSelect == InitSelect /\ [][NextSelect]_vars

(***************************************************************************)
(* Readiness: inputs and specification.                                    *)
(***************************************************************************)

\* The most dependencies of a child.
MaxDependencies == 2

\* The ids of the tracker's issues; which of them are dependents of the
\* epic is part of the input.
IssueIds == ChildIds \cup {<<"x", "7">>}

\* A child with up to MaxDependencies dependencies on distinct other issues,
\* each with the status the tracker reports for it.
InitReady ==
    /\ \E self \in IssueIds, n \in 0..MaxDependencies :
         \E ids \in {f \in [1..n -> IssueIds \ {self}] : Injective(f)},
            ss \in [1..n -> IssueStatus] :
                child = [id |-> self,
                         dependencies |->
                             [k \in 1..n |-> [id |-> ids[k], status |-> ss[k]]]]
    /\ epic_child_ids \in {ids \in SUBSET IssueIds : child.id \in ids}
    /\ ready = NotReturned
    /\ MarkerIdle /\ PhaseIdle /\ SelectIdle /\ RunIdle /\ ToolIdle

\* is_ready(child.id) of EpicRunLoop._select_next_child, the child fetched:
\* self._is_child_ready(child, child_ids)
IsChildReady ==
    /\ ready = NotReturned
    /\ ready' = Returned(_is_child_ready(child, epic_child_ids))
    /\ UNCHANGED <<child, epic_child_ids>>
    /\ UNCHANGED <<markerVars, phaseVars, selectVars, runVars, toolVars>>

NextReady == IsChildReady

SpecReady == InitReady /\ [][NextReady]_vars

(***************************************************************************)
(* Epic run loop: the steps of run.                                        *)
(***************************************************************************)

\* The most fetches of one phase confirmation: the deadline of
\* _wait_for_phase has passed by then at the latest.
MaxPolls == 2

FetchEvents(ids) == [k \in DOMAIN ids |-> GetIssueEvent(ids[k], TRUE)]

RunConfigUnchanged ==
    UNCHANGED <<once, dry_run, max_iterations, settings, implementer_name,
                reviewer_name, environ, git_available>>

\* A `continue` that goes to the next iteration without the sleep.
Continue_without_sleep ==
    IF once
    THEN run_result' = ReturnedCode(0) /\ pc' = "done"
    ELSE run_result' = run_result /\ pc' = "run"

\* The iteration ended with `continue`: run returns 0 when `once` is set and
\* sleeps before the next iteration otherwise.
Continue ==
    IF once
    THEN run_result' = ReturnedCode(0) /\ pc' = "done"
    ELSE run_result' = run_result /\ pc' = "sleep"

\* The for loop of run is exhausted: raise ConfigError.
RunExhausted ==
    /\ pc = "run"
    /\ ~has_next_iteration(iteration, max_iterations)
    /\ run_result' =
           Raised(ConfigError, MaxIterationsText \o int_str(max_iterations))
    /\ pc' = "done"
    /\ UNCHANGED <<issues, worktree, pending, iteration, frame, polls,
                   last_phase, events>>
    /\ RunConfigUnchanged
    /\ UNCHANGED <<markerVars, phaseVars, selectVars, readyVars, toolVars>>

\* An iteration in which a get_issue of the epic or of a child fails: the
\* tracker error leaves run.
IterationFetchFails ==
    /\ pc = "run"
    /\ has_next_iteration(iteration, max_iterations)
    /\ \E k \in DOMAIN _run_one_iteration(issues).fetched :
           LET ids == _run_one_iteration(issues).fetched
           IN  events' = events \o <<IterationEvent(iteration + 1)>>
                         \o FetchEvents(SubSeq(ids, 1, k - 1))
                         \o <<GetIssueEvent(ids[k], FALSE)>>
    /\ iteration' = iteration + 1
    /\ run_result' = Raised(BeadsError, BdFailedText)
    /\ pc' = "done"
    /\ UNCHANGED <<issues, worktree, pending, frame, polls, last_phase>>
    /\ RunConfigUnchanged
    /\ UNCHANGED <<markerVars, phaseVars, selectVars, readyVars, toolVars>>

\* An iteration that ends run before any dispatch: the target is not an
\* epic, the epic is complete, there is no ready work, a dry run, or the
\* profile or git is missing.
IterationEnds ==
    /\ pc = "run"
    /\ has_next_iteration(iteration, max_iterations)
    /\ LET it == _run_one_iteration(issues)
       IN  /\ it.kind \in {"raise", "return"}
           /\ events' = events \o <<IterationEvent(iteration + 1)>>
                        \o FetchEvents(it.fetched) \o it.log
           /\ run_result' = IF it.kind = "return" THEN ReturnedCode(it.code)
                            ELSE Raised(it.error, it.message)
    /\ iteration' = iteration + 1
    /\ pc' = "done"
    /\ UNCHANGED <<issues, worktree, pending, frame, polls, last_phase>>
    /\ RunConfigUnchanged
    /\ UNCHANGED <<markerVars, phaseVars, selectVars, readyVars, toolVars>>

\* An iteration whose selected child is in phase CLOSE: beads.close.
IterationCloses ==
    /\ pc = "run"
    /\ has_next_iteration(iteration, max_iterations)
    /\ LET it == _run_one_iteration(issues)
       IN  /\ it.kind = "close"
           /\ \E ok \in BOOLEAN :
                /\ events' = events \o <<IterationEvent(iteration + 1)>>
                             \o FetchEvents(it.fetched)
                             \o <<CloseEvent(it.issue_id, ok)>>
                /\ IF ok
                   THEN issues' = close_issue(issues, it.issue_id) /\ Continue
                   ELSE /\ issues' = issues
                        /\ run_result' = Raised(BeadsError, BdFailedText)
                        /\ pc' = "done"
    /\ iteration' = iteration + 1
    /\ UNCHANGED <<worktree, pending, frame, polls, last_phase>>
    /\ RunConfigUnchanged
    /\ UNCHANGED <<markerVars, phaseVars, selectVars, readyVars, toolVars>>

\* An iteration whose selected child is in phase IMPLEMENT or REVIEW, the
\* profile found: the command is started.
IterationStartsCommand ==
    /\ pc = "run"
    /\ has_next_iteration(iteration, max_iterations)
    /\ LET it == _run_one_iteration(issues)
       IN  /\ it.kind = "exec"
           /\ events' = events \o <<IterationEvent(iteration + 1)>>
                        \o FetchEvents(it.fetched) \o it.log
                        \o <<ExecEvent(it.frame.phase_name, it.frame.issue_id,
                                       it.frame.argv)>>
           /\ frame' = it.frame
    /\ iteration' = iteration + 1
    /\ pc' = "exec"
    /\ polls' = 0
    /\ last_phase' = Unset
    /\ UNCHANGED <<issues, worktree, pending, run_result>>
    /\ RunConfigUnchanged
    /\ UNCHANGED <<markerVars, phaseVars, selectVars, readyVars, toolVars>>

\* What a command does while it runs: its exit code and output, the comment
\* the agent itself writes on the issue (Nothing for none), whether that
\* comment is visible in the tracker only later, and whether the working
\* tree changes.
Behaviour(code, out, err, text, late, changes) ==
    [returncode |-> code, stdout |-> out, stderr |-> err, comment |-> text,
     late |-> late, changes_tree |-> changes]

ReadyStdout ==
    <<"R", "e", "a", "d", "y", " ", "f", "o", "r", " ", "r", "e", "v", "i",
      "e", "w", ":", "\n", "\n", "S", "u", "m", "m", "a", "r", "y", " ",
      "o", "f", " ", "t", "h", "e", " ", "c", "h", "a", "n", "g", "e",
      "\n">>

ReadyComment ==
    <<"R", "e", "a", "d", "y", " ", "f", "o", "r", " ", "r", "e", "v", "i",
      "e", "w", ":", " ", "d", "o", "n", "e">>

ChangesComment ==
    <<"C", "h", "a", "n", "g", "e", "s", " ", "r", "e", "q", "u", "e", "s",
      "t", "e", "d", ":", " ", "f", "i", "x", " ", "X">>

NoMarkerStdout ==
    <<"N", "o", " ", "m", "a", "r", "k", "e", "r", " ", "h", "e", "r", "e",
      "\n">>

CommandBehaviours ==
    { Behaviour(0, ReadyStdout, <<>>, Nothing, FALSE, TRUE),
      Behaviour(0, ReadyStdout, <<>>, Nothing, FALSE, FALSE),
      Behaviour(0, <<>>, <<>>, Some(ReadyComment), FALSE, TRUE),
      Behaviour(0, <<>>, <<>>, Some(ReadyComment), TRUE, TRUE),
      Behaviour(0, <<>>, <<>>, Some(LgtmWord), FALSE, FALSE),
      Behaviour(0, <<>>, <<>>, Some(LgtmWord), TRUE, FALSE),
      Behaviour(0, <<>>, <<>>, Some(ChangesComment), FALSE, FALSE),
      Behaviour(0, <<>>, <<>>, Nothing, FALSE, TRUE),
      Behaviour(0, <<"L", "G", "T", "M", "\n">>, <<>>, Nothing, FALSE, FALSE),
      Behaviour(0, <<"l", "g", "t", "m">>, <<>>, Nothing, FALSE, FALSE),
      Behaviour(0, ChangesComment, <<>>, Nothing, FALSE, FALSE),
      Behaviour(0, NoMarkerStdout, <<>>, Nothing, FALSE, TRUE),
      Behaviour(0, <<" ", "\n">>, <<>>, Nothing, FALSE, TRUE),
      Behaviour(2, <<"h", "e", "l", "l", "o", "\n">>,
                <<"b", "o", "o", "m", "\n">>, Nothing, FALSE, FALSE),
      Behaviour(1, <<"h", "e", "l", "l", "o", "\n">>, <<>>,
                Some(ReadyComment), FALSE, TRUE) }

\* The command of the frame exits; the loop handles its result up to the
\* phase confirmation: the failure path of _run_profile_command,
\* _ensure_git_changes, _maybe_comment_from_stdout.  `ok` says whether the
\* tracker accepts the comment the loop posts.
CommandExits ==
    /\ pc = "exec"
    /\ \E b \in CommandBehaviours, ok \in BOOLEAN :
         LET visible == b.comment # Nothing /\ ~b.late
             tracker == IF visible
                        THEN add_comment(issues, frame.issue_id, b.comment[1])
                        ELSE issues
             after_sig == IF b.changes_tree THEN worktree + 1 ELSE worktree
             result == [argv |-> frame.argv, returncode |-> b.returncode,
                        stdout |-> b.stdout, stderr |-> b.stderr]
         IN  \E todo \in {after_command(frame, result, after_sig)} :
             /\ todo.post = Nothing => ok
             /\ worktree' = after_sig
             /\ frame' = [frame EXCEPT !.result = Some(result)]
             /\ pending' = IF b.comment # Nothing /\ b.late
                           THEN b.comment ELSE Nothing
             /\ issues' = IF todo.post # Nothing /\ ok
                          THEN add_comment(tracker, frame.issue_id, todo.post[1])
                          ELSE tracker
             /\ events' =
                    events \o todo.log
                    \o (IF todo.post = Nothing THEN <<>>
                        ELSE <<CommentEvent(frame.issue_id, todo.post[1], ok)>>)
                    \o (IF todo.post # Nothing /\ ~ok /\ todo.guarded
                        THEN <<LoggerErrorEvent(BdFailedText)>> ELSE <<>>)
             /\ IF todo.post # Nothing /\ ~ok /\ ~todo.guarded
                THEN run_result' = Raised(BeadsError, BdFailedText) /\ pc' = "done"
                ELSE IF todo.then = "raise"
                THEN /\ run_result' = Raised(CommandError, todo.message)
                     /\ pc' = "done"
                ELSE run_result' = run_result /\ pc' = "wait_for_phase"
    /\ UNCHANGED <<iteration, polls, last_phase>>
    /\ RunConfigUnchanged
    /\ UNCHANGED <<markerVars, phaseVars, selectVars, readyVars, toolVars>>

\* The comment the agent wrote becomes visible in the tracker while the loop
\* sleeps between two fetches of the phase confirmation.
PendingCommentLands ==
    /\ pc = "wait_for_phase"
    /\ polls >= 1
    /\ pending # Nothing
    /\ issues' = add_comment(issues, frame.issue_id, pending[1])
    /\ pending' = Nothing
    /\ UNCHANGED <<worktree, pc, iteration, frame, polls, last_phase,
                   run_result, events>>
    /\ RunConfigUnchanged
    /\ UNCHANGED <<markerVars, phaseVars, selectVars, readyVars, toolVars>>

\* A wait that goes on until its deadline whatever the phase is.
wait_goes_on_regardless(phase_name, expected, in_time) == in_time

\* `while phase not in expected and time.monotonic() < deadline:`
wait_goes_on(phase_name, expected, in_time) ==
    phase_name \notin expected /\ in_time

\* One turn of _wait_for_phase and, when the wait ends, the rest of
\* _ensure_phase: the issue is fetched (ok) and its phase computed; an
\* expected phase ends the iteration with `continue`; otherwise the loop
\* sleeps and fetches again while the deadline has not passed (in_time), and
\* after that posts the failure comment (posted) and raises CommandError.
WaitForPhase ==
    /\ pc = "wait_for_phase"
    /\ \E ok \in BOOLEAN, in_time \in BOOLEAN, posted \in BOOLEAN :
         LET refreshed == get_issue(issues, frame.issue_id)
             now_phase == determine_next_work(refreshed.id, refreshed.comments).phase
         IN  IF ~ok
             THEN /\ in_time /\ posted
                  /\ events' = events \o <<GetIssueEvent(frame.issue_id, FALSE)>>
                  /\ run_result' = Raised(BeadsError, BdFailedText)
                  /\ pc' = "done"
                  /\ UNCHANGED <<issues, polls, last_phase, frame>>
             ELSE IF wait_goes_on(now_phase, frame.expected,
                                  in_time /\ polls + 1 < MaxPolls)
             THEN /\ posted
                  /\ events' = events \o <<GetIssueEvent(frame.issue_id, TRUE),
                                           SleepEvent(POLL_SLEEP_MS)>>
                  /\ polls' = polls + 1
                  /\ last_phase' = now_phase
                  /\ UNCHANGED <<issues, frame, run_result, pc>>
             ELSE IF now_phase \in frame.expected
             THEN /\ in_time /\ posted
                  /\ events' = events \o <<GetIssueEvent(frame.issue_id, TRUE)>>
                  /\ polls' = polls + 1
                  /\ last_phase' = now_phase
                  /\ frame' = NoFrame
                  /\ Continue
                  /\ UNCHANGED issues
             ELSE /\ ~in_time
                  /\ events' = events \o <<GetIssueEvent(frame.issue_id, TRUE),
                                           CommentEvent(frame.issue_id,
                                               frame.failure_comment, posted)>>
                  /\ polls' = polls + 1
                  /\ last_phase' = now_phase
                  /\ issues' = IF posted
                               THEN add_comment(issues, frame.issue_id,
                                                frame.failure_comment)
                               ELSE issues
                  /\ run_result' =
                         IF posted THEN Raised(CommandError, frame.error_message)
                         ELSE Raised(BeadsError, BdFailedText)
                  /\ pc' = "done"
                  /\ UNCHANGED frame
    /\ UNCHANGED <<worktree, pending, iteration>>
    /\ RunConfigUnchanged
    /\ UNCHANGED <<markerVars, phaseVars, selectVars, readyVars, toolVars>>

\* time.sleep(self.settings.interval_seconds) after an iteration that ended
\* with `continue`.
Sleep ==
    /\ pc = "sleep"
    /\ events' = events \o <<SleepEvent(1000 * settings.interval_seconds)>>
    /\ pc' = "run"
    /\ UNCHANGED <<issues, worktree, pending, iteration, frame, polls,
                   last_phase, run_result>>
    /\ RunConfigUnchanged
    /\ UNCHANGED <<markerVars, phaseVars, selectVars, readyVars, toolVars>>

NextRun ==
    \/ RunExhausted
    \/ IterationFetchFails
    \/ IterationEnds
    \/ IterationCloses
    \/ IterationStartsCommand
    \/ CommandExits
    \/ PendingCommentLands
    \/ WaitForPhase
    \/ Sleep

(***************************************************************************)
(* Epic run loop: inputs and specifications.                               *)
(***************************************************************************)

\* The most iterations run is allowed (max_iterations).
MaxIterations == 2

\* The dependents of the epic, and an issue outside the epic.
RunChildIds == << <<"b", "1">>, <<"b", "2">> >>

ExternalId == <<"x", "7">>

\* Comment histories of a child: no marker, ready for review, approved,
\* changes requested.
Histories ==
    { <<>>,
      <<ReadyComment>>,
      <<ReadyComment, LgtmWord>>,
      <<ReadyComment, ChangesComment>> }

CommentsOf(texts) ==
    [k \in DOMAIN texts |-> [id |-> k, created_at |-> k, text |-> texts[k]]]

\* A tracker with the epic (of type ty), its first n dependents with the
\* statuses ss and histories hs, and the issue outside the epic, which the
\* first dependent depends on; with `chain` every other dependent depends on
\* the one before it.
Tracker(n, ty, ss, hs, chain) ==
    LET index(id) == CHOOSE k \in 1..n : RunChildIds[k] = id
    IN  [id \in {EpicId, ExternalId} \cup {RunChildIds[k] : k \in 1..n} |->
            IF id = EpicId
            THEN [issue_type |-> ty, status |-> OPEN, priority |-> 1,
                  created_at |-> 0, dependencies |-> <<>>,
                  dependents |-> SubSeq(RunChildIds, 1, n), comments |-> <<>>]
            ELSE IF id = ExternalId
            THEN [issue_type |-> TASK, status |-> OPEN, priority |-> 1,
                  created_at |-> 0, dependencies |-> <<>>,
                  dependents |-> <<>>, comments |-> <<>>]
            ELSE [issue_type |-> TASK, status |-> ss[index(id)],
                  priority |-> 1, created_at |-> 1,
                  dependencies |->
                      IF index(id) = 1 THEN <<ExternalId>>
                      ELSE IF chain THEN <<RunChildIds[index(id) - 1]>>
                      ELSE <<>>,
                  dependents |-> <<>>,
                  comments |-> CommentsOf(hs[index(id)])]]

\* The command template of a profile, tokenized.
CommandTemplate ==
    << <<"a", "g", "e", "n", "t">>, <<"-", "-", "i", "s", "s", "u", "e">>,
       IssueIdPlaceholder >>

Profile(mode, prefix, suffix, git) ==
    [command |-> CommandTemplate, comment_mode |-> mode,
     comment_prefix |-> prefix, comment_suffix |-> suffix,
     require_git_changes |-> git]

CommandProfile == Profile("command", <<>>, <<>>, FALSE)

ReadyPrefix ==
    <<"R", "e", "a", "d", "y", " ", "f", "o", "r", " ", "r", "e", "v", "i",
      "e", "w", ":", " ">>

SignatureSuffix ==
    <<"\n", "-", "-", " ", "c", "o", "d", "e", "x", "\n">>

ImplementerProfiles ==
    { CommandProfile,
      Profile("command", <<>>, <<>>, TRUE),
      Profile("stdout", <<>>, <<>>, FALSE),
      Profile("stdout", <<>>, <<>>, TRUE),
      Profile("stdout", ReadyPrefix, SignatureSuffix, FALSE) }

ReviewerProfiles ==
    { CommandProfile,
      Profile("stdout", <<>>, <<>>, FALSE) }

ImplementerName == <<"c", "o", "d", "e", "x">>

ReviewerName == <<"c", "l", "a", "u", "d", "e">>

UnknownName == <<"n", "o", "p", "e">>

\* settings.interval_seconds
IntervalSeconds == 30

Settings(resume, implementer, reviewer) ==
    [interval_seconds |-> IntervalSeconds,
     run |-> [resume_in_progress |-> resume],
     implementers |-> [name \in {ImplementerName} |-> implementer],
     reviewers |-> [name \in {ReviewerName} |-> reviewer]]

\* os.environ without the BEADSFLOW_MAX_COMMENT_* variables, and with a
\* byte budget of 36.
DefaultEnviron ==
    [BEADSFLOW_MAX_COMMENT_LINES |-> Nothing,
     BEADSFLOW_MAX_COMMENT_BYTES |-> Nothing]

SmallEnviron ==
    [BEADSFLOW_MAX_COMMENT_LINES |-> Nothing,
     BEADSFLOW_MAX_COMMENT_BYTES |-> Some(<<"3", "6">>)]

\* run has been called and no iteration has started.
RunStart ==
    /\ worktree = 0
    /\ pending = Nothing
    /\ pc = "run"
    /\ iteration = 0
    /\ frame = NoFrame
    /\ polls = 0
    /\ last_phase = Unset
    /\ run_result = Running
    /\ events = <<>>

\* Any tracker state of up to two dependents, any run flags, profiles in
\* comment mode "command".
InitRun ==
    /\ \E n \in 0..Len(RunChildIds), ty \in IssueType, chain \in BOOLEAN :
         \E ss \in [1..n -> IssueStatus], hs \in [1..n -> Histories] :
             issues = Tracker(n, ty, ss, hs, chain)
    /\ once \in BOOLEAN
    /\ dry_run \in BOOLEAN
    /\ max_iterations \in 1..MaxIterations
    /\ \E resume \in BOOLEAN :
           settings = Settings(resume, CommandProfile, CommandProfile)
    /\ implementer_name = Some(ImplementerName)
    /\ reviewer_name = Some(ReviewerName)
    /\ environ = DefaultEnviron
    /\ git_available = TRUE
    /\ RunStart
    /\ MarkerIdle /\ PhaseIdle /\ SelectIdle /\ ReadyIdle /\ ToolIdle

SpecRun == InitRun /\ [][NextRun]_vars

\* An epic with at most one dependent of any status and history, a real
\* run (no dry run) with and without `once`.
InitRunFair ==
    /\ \E n \in 0..1 :
         \E ss \in [1..n -> IssueStatus], hs \in [1..n -> Histories] :
             issues = Tracker(n, EPIC, ss, hs, FALSE)
    /\ once \in BOOLEAN
    /\ dry_run = FALSE
    /\ max_iterations \in 1..MaxIterations
    /\ settings = Settings(TRUE, CommandProfile, CommandProfile)
    /\ implementer_name = Some(ImplementerName)
    /\ reviewer_name = Some(ReviewerName)
    /\ environ = DefaultEnviron
    /\ git_available = TRUE
    /\ RunStart
    /\ MarkerIdle /\ PhaseIdle /\ SelectIdle /\ ReadyIdle /\ ToolIdle

PcValues == {"idle", "run", "exec", "wait_for_phase", "sleep", "done"}

\* The flow of control leaves the point where it is.
ControlMoves == pc \notin {"idle", "done"} /\ pc' \in PcValues

\* run is one sequential flow that goes on until it returns or raises: a
\* tracker call returns, a command ends by itself or at its timeout, a
\* sleep ends, the deadline of a phase confirmation passes.
SpecRunFair == InitRunFair /\ [][NextRun]_vars /\ WF_pc(ControlMoves)

\* An epic with one open dependent of any history, any profiles and profile
\* selection, with and without git.
InitRunProfiles ==
    /\ \E hs \in [1..1 -> Histories] :
           issues = Tracker(1, EPIC, <<OPEN>>, hs, FALSE)
    /\ once \in BOOLEAN
    /\ dry_run \in BOOLEAN
    /\ max_iterations \in 1..MaxIterations
    /\ \E implementer \in ImplementerProfiles, reviewer \in ReviewerProfiles :
           settings = Settings(TRUE, implementer, reviewer)
    /\ implementer_name \in {Nothing, Some(ImplementerName), Some(UnknownName)}
    /\ reviewer_name \in {Nothing, Some(ReviewerName), Some(UnknownName)}
    /\ environ \in {DefaultEnviron, SmallEnviron}
    /\ git_available \in BOOLEAN
    /\ RunStart
    /\ MarkerIdle /\ PhaseIdle /\ SelectIdle /\ ReadyIdle /\ ToolIdle

SpecRunProfiles == InitRunProfiles /\ [][NextRun]_vars

(***************************************************************************)
(* Comment capper: inputs and specification.                               *)
(***************************************************************************)

\* Lines a command's output is composed of: short, blank, with a character
\* of three bytes and a "\r\n" break, long and without a line break.
CapLines ==
    { <<"a", "b", "\n">>,
      <<"\n">>,
      <<"U+20AC", "x", "\r", "\n">>,
      <<"0", "1", "2", "3", "4", "5", "6", "7", "8", "9", "a", "b", "c",
        "d", "e", "f">> }

\* The texts of up to n lines of CapLines.
RECURSIVE TextsOfLines(_)
TextsOfLines(n) ==
    IF n = 0 THEN {<<>>}
    ELSE TextsOfLines(n - 1)
         \cup {t \o l : t \in TextsOfLines(n - 1), l \in CapLines}

CapPrefixes == {<<>>, <<"p", "r", "e", "-">>, ReadyPrefix}

CapSuffixes == {<<>>, <<"-", "s", "u", "f">>}

\* Values of BEADSFLOW_MAX_COMMENT_LINES: not set, no limit, a limit, no
\* number.
LineLimits == {Nothing, Some(<<"0">>), Some(<<"2">>), Some(<<"x", "1">>)}

\* Values of BEADSFLOW_MAX_COMMENT_BYTES: not set, no limit (0, negative),
\* limits.
ByteLimits ==
    { Nothing, Some(<<"0">>), Some(<<"-", "1">>), Some(<<" ", "1", "0">>),
      Some(<<"2", "4">>), Some(<<"4", "0">>) }

InitCap ==
    /\ cap_body \in TextsOfLines(MaxLines)
    /\ cap_prefix \in CapPrefixes
    /\ cap_suffix \in CapSuffixes
    /\ \E ls \in LineLimits, bs \in ByteLimits :
           cap_environ = [BEADSFLOW_MAX_COMMENT_LINES |-> ls,
                          BEADSFLOW_MAX_COMMENT_BYTES |-> bs]
    /\ cap_result = NotReturned
    /\ MarkerIdle /\ PhaseIdle /\ SelectIdle /\ ReadyIdle /\ RunIdle
    /\ TruncateIdle /\ EnsureMarkerIdle /\ BdIdle

\* _cap_comment_body(body=, prefix=, suffix=) returns.
CapCommentBody ==
    /\ cap_result = NotReturned
    /\ cap_result' =
           Returned(_cap_comment_body(cap_body, cap_prefix, cap_suffix,
                                      cap_environ))
    /\ UNCHANGED <<cap_body, cap_prefix, cap_suffix, cap_environ>>
    /\ UNCHANGED <<markerVars, phaseVars, selectVars, readyVars, runVars,
                   truncVars, ensureVars, bdVars>>

NextCap == CapCommentBody

SpecCap == InitCap /\ [][NextCap]_vars

(***************************************************************************)
(* Byte-safe truncation: inputs and specification.                         *)
(***************************************************************************)

\* The most characters of a text handed to _truncate_utf8.
MaxChars == 3

\* Characters of one, two, three and four bytes.
TruncateAlphabet == {"a", "U+00E9", "U+20AC", "U+1F600"}

RECURSIVE TextsOfChars(_)
TextsOfChars(n) ==
    IF n = 0 THEN {<<>>}
    ELSE TextsOfChars(n - 1)
         \cup {Append(t, c) : t \in TextsOfChars(n - 1), c \in TruncateAlphabet}

InitTruncate ==
    /\ trunc_text \in TextsOfChars(MaxChars)
    /\ trunc_max_bytes \in -1..(4 * MaxChars + 1)
    /\ trunc_result = NotReturned
    /\ MarkerIdle /\ PhaseIdle /\ SelectIdle /\ ReadyIdle /\ RunIdle
    /\ CapIdle /\ EnsureMarkerIdle /\ BdIdle

\* _truncate_utf8(text, max_bytes) returns.
TruncateUtf8 ==
    /\ trunc_result = NotReturned
    /\ trunc_result' = Returned(_truncate_utf8(trunc_text, trunc_max_bytes))
    /\ UNCHANGED <<trunc_text, trunc_max_bytes>>
    /\ UNCHANGED <<markerVars, phaseVars, selectVars, readyVars, runVars,
                   capVars, ensureVars, bdVars>>

NextTruncate == TruncateUtf8

SpecTruncate == InitTruncate /\ [][NextTruncate]_vars

(***************************************************************************)
(* _ensure_marker: inputs and specification.                               *)
(***************************************************************************)

\* White space around the output of a review.
Margins == {<<>>, <<"\n", "\n">>, <<" ", "\t">>}

\* Lines of a review: blank, marker lines in several spellings, ordinary
\* text, and a word that only starts like a marker.
ReviewLines ==
    { <<>>,
      <<"L", "G", "T", "M">>,
      <<"\t", " ", "L", "G", "T", "M", " ", "o", "k", " ">>,
      <<"L", "G", "T", "M", "x">>,
      <<"C", "h", "a", "n", "g", "e", "s", " ", "r", "e", "q", "u", "e", "s",
        "t", "e", "d", ":", " ", "f", "i", "x">>,
      <<"c", "h", "a", "n", "g", "e", "s", " ", "r", "e", "q", "u", "e", "s",
        "t", "e", "d">>,
      <<"i", "n", "t", "r", "o", " ", "t", "e", "x", "t">> }

\* The texts of up to n of these lines, joined by "\n".
RECURSIVE OutputsOfLines(_)
OutputsOfLines(n) ==
    IF n = 0 THEN {<<>>}
    ELSE OutputsOfLines(n - 1)
         \cup {t \o (IF t = <<>> THEN <<>> ELSE <<"\n">>) \o l :
                   t \in OutputsOfLines(n - 1), l \in ReviewLines}

InitEnsureMarker ==
    /\ \E before \in Margins, t \in OutputsOfLines(MaxLines), after \in Margins :
           review_output = before \o t \o after
    /\ ensured = NotReturned
    /\ MarkerIdle /\ PhaseIdle /\ SelectIdle /\ ReadyIdle /\ RunIdle
    /\ CapIdle /\ TruncateIdle /\ BdIdle

\* _ensure_marker(output) returns.
EnsureMarker ==
    /\ ensured = NotReturned
    /\ ensured' = Returned(_ensure_marker(review_output))
    /\ UNCHANGED review_output
    /\ UNCHANGED <<markerVars, phaseVars, selectVars, readyVars, runVars,
                   capVars, truncVars, bdVars>>

NextEnsureMarker == EnsureMarker

SpecEnsureMarker == InitEnsureMarker /\ [][NextEnsureMarker]_vars

(***************************************************************************)
(* Tracker calls: inputs and specification.                                *)
(***************************************************************************)

\* "Error: Database out of sync with JSONL." and another error of bd.
OutOfSyncStderr ==
    <<"E", "r", "r", "o", "r", ":", " ", "D", "a", "t", "a", "b", "a",
      "s", "e", " ", "o", "u", "t", " ", "o", "f", " ", "s", "y", "n",
      "c", " ", "w", "i", "t", "h", " ", "J", "S", "O", "N", "L", ".",
      "\n">>

NotFoundStderr ==
    <<"E", "r", "r", "o", "r", ":", " ", "i", "s", "s", "u", "e", " ",
      "n", "o", "t", " ", "f", "o", "u", "n", "d", "\n">>

\* What bd prints on stdout: JSON or not, and the parsed list.
BdStdouts ==
    { [json |-> TRUE, payload |-> <<"issue">>],
      [json |-> TRUE, payload |-> <<>>],
      [json |-> FALSE, payload |-> <<>>] }

\* The CompletedProcess values of subprocess.run.
Completions ==
    [returncode : {0, 1}, stdout : BdStdouts,
     stderr : {<<>>, OutOfSyncStderr, NotFoundStderr}]

BdIssueIds == {RunChildIds[1], RunChildIds[2]}

\* A method of BeadsCli has been called.
InitBd ==
    /\ \E method \in {"get_issue", "comment", "close"}, no_db \in BOOLEAN,
          id \in BdIssueIds :
           bd_call = [method |-> method, no_db |-> no_db, issue_id |-> id,
                      text |-> IF method = "comment" THEN LgtmWord ELSE <<>>]
    /\ bd_pc = "run"
    /\ bd_runs = <<>>
    /\ bd_outcome = NotReturned
    /\ MarkerIdle /\ PhaseIdle /\ SelectIdle /\ ReadyIdle /\ RunIdle
    /\ CapIdle /\ TruncateIdle /\ EnsureMarkerIdle

BdUnchanged ==
    UNCHANGED <<markerVars, phaseVars, selectVars, readyVars, runVars,
                capVars, truncVars, ensureVars>>

\* subprocess.run(argv) of the method returns `completed`: the method
\* returns, raises, or goes on to _sync_import_only.
BdRun ==
    /\ bd_pc = "run"
    /\ \E completed \in Completions :
         /\ bd_runs' = Append(bd_runs, [argv |-> call_argv(bd_call),
                                        completed |-> completed])
         /\ CASE after_first_run(completed) = "return" ->
                     /\ bd_outcome' = returned_value(bd_call, completed)
                     /\ bd_pc' = "done"
              [] after_first_run(completed) = "raise" ->
                     /\ bd_outcome' = failed_value(bd_call)
                     /\ bd_pc' = "done"
              [] after_first_run(completed) = "sync" ->
                     /\ bd_outcome' = bd_outcome
                     /\ bd_pc' = "sync"
    /\ UNCHANGED bd_call
    /\ BdUnchanged

\* _sync_import_only: `bd sync --import-only` returns `completed`.
BdSyncImportOnly ==
    /\ bd_pc = "sync"
    /\ \E completed \in Completions :
         /\ bd_runs' = Append(bd_runs, [argv |-> sync_argv(bd_call),
                                        completed |-> completed])
         /\ IF completed.returncode # 0
            THEN /\ bd_outcome' = BdRaised("bd sync --import-only failed")
                 /\ bd_pc' = "done"
            ELSE bd_outcome' = bd_outcome /\ bd_pc' = "retry"
    /\ UNCHANGED bd_call
    /\ BdUnchanged

\* The second subprocess.run(argv) of the method returns `completed`.
BdRetry ==
    /\ bd_pc = "retry"
    /\ \E completed \in Completions :
         /\ bd_runs' = Append(bd_runs, [argv |-> call_argv(bd_call),
                                        completed |-> completed])
         /\ bd_outcome' = IF completed.returncode # 0
                          THEN failed_value(bd_call)
                          ELSE returned_value(bd_call, completed)
         /\ bd_pc' = "done"
    /\ UNCHANGED bd_call
    /\ BdUnchanged

NextBd == BdRun \/ BdSyncImportOnly \/ BdRetry

SpecBd == InitBd /\ [][NextBd]_vars

\* An epic with two dependents, open or in progress, of any history, with any sibling
\* dependencies between them (a cycle included) and either order of
\* priority; a real run without `once`, the profiles in comment mode "command".
InitRunDeps ==
    /\ \E ss \in [1..2 -> {OPEN, IN_PROGRESS}], hs \in [1..2 -> Histories],
          first_deps \in {<<ExternalId>>, <<ExternalId, RunChildIds[2]>>},
          second_deps \in {<<>>, <<RunChildIds[1]>>},
          first_priority \in {1, 2} :
           issues = [Tracker(2, EPIC, ss, hs, FALSE) EXCEPT
                         ![RunChildIds[1]].dependencies = first_deps,
                         ![RunChildIds[2]].dependencies = second_deps,
                         ![RunChildIds[1]].priority = first_priority]
    /\ once = FALSE
    /\ dry_run = FALSE
    /\ max_iterations = MaxIterations
    /\ \E resume \in BOOLEAN :
           settings = Settings(resume, CommandProfile, CommandProfile)
    /\ implementer_name = Some(ImplementerName)
    /\ reviewer_name = Some(ReviewerName)
    /\ environ = DefaultEnviron
    /\ git_available = TRUE
    /\ RunStart
    /\ MarkerIdle /\ PhaseIdle /\ SelectIdle /\ ReadyIdle /\ ToolIdle

SpecRunDeps == InitRunDeps /\ [][NextRun]_vars

\* The hypotheses of a cooperative run, on one step: the tracker accepts
\* every call, and a command exits 0 having left its marker comment on the
\* issue, "Ready for review: ..." from the implementer and "LGTM" from the
\* reviewer, visible at once.
Cooperates ==
    /\ \A k \in (Len(events) + 1)..Len(events') :
           events'[k].op \in {"get_issue", "close", "comment"} => events'[k].ok
    /\ pc = "exec" =>
           /\ frame'.result[1].returncode = 0
           /\ pending' = Nothing
           /\ issues' = add_comment(issues, frame.issue_id,
                                    IF frame.phase_name = IMPLEMENTER
                                    THEN ReadyComment ELSE LgtmWord)

\* The steps of run under these hypotheses.
NextRunCooperative ==
    \/ RunExhausted /\ Cooperates
    \/ IterationEnds /\ Cooperates
    \/ IterationCloses /\ Cooperates
    \/ IterationStartsCommand /\ Cooperates
    \/ CommandExits /\ Cooperates
    \/ WaitForPhase /\ Cooperates
    \/ Sleep /\ Cooperates

\* An epic with one or two open dependents without comments and acyclic
\* sibling dependencies; a real run without `once`, with 3n + 1 iterations
\* allowed for n dependents, or one fewer.
InitRunCooperative ==
    /\ \E n \in 1..2,
          first_deps \in {<<ExternalId>>, <<ExternalId, RunChildIds[2]>>},
          second_deps \in {<<>>, <<RunChildIds[1]>>},
          first_priority \in {1, 2} :
           /\ n = 1 => first_deps = <<ExternalId>>
           /\ Len(first_deps) = 1 \/ second_deps = <<>>
           /\ issues = [id \in DOMAIN Tracker(n, EPIC, [k \in 1..n |-> OPEN],
                                               [k \in 1..n |-> <<>>], FALSE) |->
                           LET raw == Tracker(n, EPIC, [k \in 1..n |-> OPEN],
                                              [k \in 1..n |-> <<>>], FALSE)[id]
                           IN  IF id = RunChildIds[1]
                               THEN [raw EXCEPT !.dependencies = first_deps,
                                                !.priority = first_priority]
                               ELSE IF id = RunChildIds[2]
                               THEN [raw EXCEPT !.dependencies = second_deps]
                               ELSE raw]
           /\ max_iterations \in {3 * n, 3 * n + 1}
    /\ once = FALSE
    /\ dry_run = FALSE
    /\ \E resume \in BOOLEAN :
           settings = Settings(resume, CommandProfile, CommandProfile)
    /\ implementer_name = Some(ImplementerName)
    /\ reviewer_name = Some(ReviewerName)
    /\ environ = DefaultEnviron
    /\ git_available = TRUE
    /\ RunStart
    /\ MarkerIdle /\ PhaseIdle /\ SelectIdle /\ ReadyIdle /\ ToolIdle

\* run goes on until it returns or raises (see SpecRunFair).
SpecRunCooperative ==
    InitRunCooperative /\ [][NextRunCooperative]_vars /\ WF_pc(ControlMoves)

(***************************************************************************)
(* Properties.                                                             *)
(***************************************************************************)

\* The comments that carry a marker.
Marked == {i \in 1..Len(comments) : marker_from_comment(comments[i]) # None}

\* C1: the latest marker is mapped to exactly one phase (none -> IMPLEMENT,
\* READY_FOR_REVIEW -> REVIEW, CHANGES_REQUESTED -> IMPLEMENT, LGTM ->
\* CLOSE), and every comment sequence, the empty one too, gets a phase.
C1_MarkerToPhase ==
    phase # Unset =>
        /\ phase \in Phase
        /\ marker \in Marker \cup {None}
        /\ marker = None => phase = IMPLEMENT
        /\ marker = READY_FOR_REVIEW => phase = REVIEW
        /\ marker = CHANGES_REQUESTED => phase = IMPLEMENT
        /\ marker = LGTM => phase = CLOSE
        /\ comments = <<>> => phase = IMPLEMENT

\* C1 witness: a changes-requested comment after a ready-for-review comment
\* sent the issue back to IMPLEMENT.
C1_Witness ==
    /\ phase = IMPLEMENT
    /\ marker = CHANGES_REQUESTED
    /\ Len(comments) >= 2

\* C2: latest_marker is the marker of a marker-carrying comment that no
\* marker-carrying comment follows in created_at order (of the one with the
\* greatest created_at when that is a single comment); comments without a
\* marker change nothing; the result is None only without any marker.
C2_LatestMarkerWins ==
    phase # Unset =>
        LET m == [i \in 1..Len(comments) |-> marker_from_comment(comments[i])]
            marked == {i \in 1..Len(comments) : m[i] # None}
            at(i) == comments[i].created_at
        IN  /\ marker = None <=> marked = {}
            /\ marker # None =>
                   \E i \in marked :
                       marker = m[i] /\ \A j \in marked : at(j) <= at(i)
            /\ \A i \in marked :
                   (\A j \in marked \ {i} : at(j) < at(i)) => marker = m[i]

\* C2 witness: ready-for-review, then LGTM, then a comment without a marker:
\* the marker is LGTM.
C2_Witness ==
    /\ phase # Unset
    /\ marker = LGTM
    /\ Len(comments) = 3
    /\ marker_from_comment(comments[1]) = READY_FOR_REVIEW
    /\ marker_from_comment(comments[2]) = LGTM
    /\ marker_from_comment(comments[3]) = None
    /\ comments[1].created_at < comments[2].created_at
    /\ comments[2].created_at <= comments[3].created_at

\* C3: comments are ordered by (created_at, id): among the marker-carrying
\* comments with the greatest created_at the one with the highest id gives
\* the latest marker, in whatever order the comments are passed.
C3_TiesBrokenById ==
    (phase # Unset /\ Marked # {}) =>
        \A i \in Marked :
            (\A j \in Marked \ {i} :
                 \/ comments[j].created_at < comments[i].created_at
                 \/ /\ comments[j].created_at = comments[i].created_at
                    /\ comments[j].id < comments[i].id)
            => marker = marker_from_comment(comments[i])

\* C4: exchanging comments that carry no marker, the marker-carrying
\* comments left in place, does not change the phase.
C4_UnmarkedOrderIrrelevant ==
    (first_phase # Unset /\ phase # Unset) => phase = first_phase

\* C4 witness: the phase was determined again after two unmarked comments
\* around a marker-carrying one were exchanged.
C4_Witness ==
    /\ first_phase = REVIEW
    /\ phase = REVIEW
    /\ Len(comments) = 3
    /\ Marked = {2}
    /\ comments[1].created_at = comments[2].created_at

\* The lines of the parsed comment and the indices of its non-blank lines.
CommentLines == splitlines(comment.text)

NonBlank == {i \in 1..Len(CommentLines) : strip(CommentLines[i]) # <<>>}

FirstNonBlank == CHOOSE i \in NonBlank : \A j \in NonBlank : i <= j

C6_LaterMarkerLineFound ==
    (parsed # Unset /\ NonBlank # {}
        /\ marker_of_first(strip(CommentLines[FirstNonBlank])) = None) =>
        \A j \in NonBlank :
            (/\ marker_of_first(strip(CommentLines[j])) # None
             /\ \A k \in NonBlank :
                    k < j => marker_of_first(strip(CommentLines[k])) = None)
            => parsed = marker_of_first(strip(CommentLines[j]))

\* C7: LGTM and changes-requested are detected in any letter case: LGTM
\* alone or followed by a non-alphanumeric character gives LGTM, "changes
\* requested" alone or followed by ":" gives CHANGES_REQUESTED, LGTM
\* directly followed by an alphanumeric character gives no marker.
C7_CaseInsensitiveMarkers ==
    (parsed # Unset /\ NonBlank # {}) =>
        LET first == strip(CommentLines[FirstNonBlank])
        IN  /\ _is_lgtm_line(first) => parsed = LGTM
            /\ _is_changes_requested_line(first) => parsed = CHANGES_REQUESTED
            /\ (/\ startswith(upper(first), LgtmWord)
                /\ Len(first) > 4
                /\ isalnum(first[5])) => parsed = None

\* C8: a marker wrapped in one layer of emphasis, in a code span, or after a
\* list bullet is recognized as the marker of the unwrapped text.
C8_MarkdownWrappedMarkers ==
    parsed # Unset =>
        \A w \in Wrappers, t \in MarkerTokens, r \in Rests :
            comment.text = Wrapped(w, t, r) =>
                parsed = marker_from_comment([comment EXCEPT !.text = t \o r])

\* The children select_next_child may return: eligible by status and ready.
Candidates ==
    { c \in Range(children) :
        /\ c.status = OPEN \/ (resume_in_progress /\ c.status = IN_PROGRESS)
        /\ c.id \in ready_ids }

\* The order (priority ascending, created_at ascending, id ascending).
Precedes(x, y) ==
    \/ x.priority < y.priority
    \/ x.priority = y.priority /\ x.created_at < y.created_at
    \/ /\ x.priority = y.priority
       /\ x.created_at = y.created_at
       /\ str_less(x.id, y.id)

Reverse(s) == [k \in 1..Len(s) |-> s[Len(s) + 1 - k]]

\* C9: select_next_child returns the least child, in the order (priority,
\* created_at, id), among those eligible by status and ready, None when
\* there is none; never a closed child, never an in-progress child unless
\* resume_in_progress; the order the children are passed in is irrelevant.
C9_SelectsLeastReadyChild ==
    selected.returned =>
        /\ Candidates = {} <=> selected.value = Nothing
        /\ \A c \in Range(selected.value) :
               /\ c \in Candidates
               /\ \A d \in Candidates \ {c} : Precedes(c, d)
               /\ c.status # CLOSED
               /\ c.status = IN_PROGRESS => resume_in_progress
        /\ selected.value =
               select_next_child(Reverse(children), resume_in_progress, ready_ids)

\* C9 witness: two ready open children of equal priority and created_at, the
\* greater id passed first; the one with the smaller id is selected.
C9_Witness ==
    /\ selected.returned
    /\ Len(children) = 2
    /\ selected.value = Some(children[2])
    /\ children[1] \in Candidates
    /\ children[1].priority = children[2].priority
    /\ children[1].created_at = children[2].created_at

\* C10: a child is ready exactly when each of its dependencies whose id is a
\* dependent of the epic is closed; dependencies on other issues never
\* matter, whatever their status.
C10_ReadyIffSiblingDependenciesClosed ==
    ready.returned =>
        /\ ready.value = (\A k \in DOMAIN child.dependencies :
                              child.dependencies[k].id \in epic_child_ids
                              => child.dependencies[k].status = CLOSED)
        /\ LET IsSibling(d) == d.id \in epic_child_ids
               siblings == SelectSeq(child.dependencies, IsSibling)
           IN  ready.value =
                   _is_child_ready([child EXCEPT !.dependencies = siblings],
                                   epic_child_ids)

\* C10 witness: a ready child with a closed sibling dependency and an open
\* dependency outside the epic.
C10_Witness ==
    /\ ready.returned
    /\ ready.value
    /\ \E k \in DOMAIN child.dependencies :
           /\ child.dependencies[k].id \in epic_child_ids
           /\ child.dependencies[k].status = CLOSED
    /\ \E k \in DOMAIN child.dependencies :
           /\ child.dependencies[k].id \notin epic_child_ids
           /\ child.dependencies[k].status = OPEN

\* The dependents of the epic in the tracker, and those the selector may
\* return: eligible by status and with every sibling dependency closed.
Dependents == Range(issues[EpicId].dependents)

ReadyDependents ==
    { id \in Dependents :
        /\ \/ issues[id].status = OPEN
           \/ issues[id].status = IN_PROGRESS /\ settings.run.resume_in_progress
        /\ \A k \in DOMAIN issues[id].dependencies :
               issues[id].dependencies[k] \in Dependents
               => issues[issues[id].dependencies[k]].status = CLOSED }

\* The effects a step adds, an iteration's without its first (the iteration
\* mark); an iteration starts in this step; every fetch of the step succeeds.
NewEvents == SubSeq(events', Len(events) + 1, Len(events'))

StartsIteration == pc = "run" /\ iteration < max_iterations

FetchesSucceed ==
    \A k \in DOMAIN NewEvents : NewEvents[k].op = "get_issue" => NewEvents[k].ok

\* The effects that reach beyond the loop: commands, tracker writes, files.
SideEffectOps == {"exec", "comment", "close", "write_log"}

\* C11: when the target fetched is not an epic, run raises ConfigError in
\* its first iteration, and the fetch of the target is the only effect: no
\* child is fetched, no command run, no comment or close sent.
C11_NonEpicFailsFast ==
    (pc # "idle" /\ issues[EpicId].issue_type # EPIC) =>
        /\ pc \in {"run", "done"}
        /\ pc = "run" => events = <<>>
        /\ pc = "done" =>
               /\ Len(events) = 2
               /\ events[1] = IterationEvent(1)
               /\ events[2].op = "get_issue" /\ events[2].id = EpicId
               /\ events[2].ok =>
                      run_result = Raised(ConfigError, EpicId \o NotAnEpicText)

\* C11 witness: ConfigError for a target of type task that has two open
\* dependents, not a dry run.
C11_Witness ==
    /\ pc = "done"
    /\ run_result.kind = "raised" /\ run_result.error = ConfigError
    /\ issues[EpicId].issue_type = TASK
    /\ Len(issues[EpicId].dependents) = 2
    /\ \A id \in Dependents : issues[id].status = OPEN
    /\ ~dry_run

\* C12: an iteration that fetches an epic whose dependents are all closed
\* makes run return 0, with the fetch of the epic as its only effect: no
\* child is selected or fetched, no command run, nothing written to the
\* tracker.
C12_CompleteEpicReturnsZero ==
    [][(/\ StartsIteration
        /\ issues[EpicId].issue_type = EPIC
        /\ \A id \in Dependents : issues[id].status = CLOSED
        /\ FetchesSucceed)
       => /\ run_result' = ReturnedCode(0)
          /\ NewEvents = <<IterationEvent(iteration + 1),
                           GetIssueEvent(EpicId, TRUE)>>
          /\ issues' = issues
          /\ worktree' = worktree]_vars

\* C12 witness: run returned 0 in its second iteration, the first having
\* closed the last open dependent.
C12_Witness ==
    /\ run_result = ReturnedCode(0)
    /\ iteration = 2
    /\ Len(issues[EpicId].dependents) = 2
    /\ \A id \in Dependents : issues[id].status = CLOSED
    /\ \E k \in DOMAIN events : events[k].op = "close" /\ events[k].ok

\* C13: an iteration that finds a dependent that is not closed, but none
\* that is eligible by status and ready, makes run return 2; it fetches
\* issues and has no other effect.
C13_NoReadyWorkReturnsTwo ==
    [][(/\ StartsIteration
        /\ issues[EpicId].issue_type = EPIC
        /\ \E id \in Dependents : issues[id].status # CLOSED
        /\ ReadyDependents = {}
        /\ FetchesSucceed)
       => /\ run_result' = ReturnedCode(2)
          /\ \A k \in DOMAIN NewEvents :
                 k > 1 => NewEvents[k].op = "get_issue"
          /\ issues' = issues
          /\ worktree' = worktree]_vars

\* C13 witness: run returned 2 with the first dependent in progress and not
\* resumed, and the open second dependent waiting for it.
C13_Witness ==
    /\ run_result = ReturnedCode(2)
    /\ ~settings.run.resume_in_progress
    /\ Len(issues[EpicId].dependents) = 2
    /\ issues[RunChildIds[1]].status = IN_PROGRESS
    /\ issues[RunChildIds[2]].status = OPEN
    /\ issues[RunChildIds[2]].dependencies = <<RunChildIds[1]>>
    /\ \E k \in DOMAIN events :
           events[k].op = "get_issue" /\ events[k].id = RunChildIds[2]

\* C14: in a dry run, an iteration that selects a child makes run return 0
\* and changes nothing: no close, no comment, no command, no log file; the
\* tracker and the working tree stay as they are, whatever the phase of the
\* selected child.
C14_DryRunHasNoSideEffects ==
    [][(/\ StartsIteration
        /\ dry_run
        /\ issues[EpicId].issue_type = EPIC
        /\ ReadyDependents # {}
        /\ FetchesSucceed)
       => /\ run_result' = ReturnedCode(0)
          /\ \A k \in DOMAIN NewEvents : NewEvents[k].op \notin SideEffectOps
          /\ issues' = issues
          /\ worktree' = worktree
          /\ pending' = pending]_vars

\* C14 witness: a dry run returned 0 after it selected (and fetched) a child
\* whose phase is CLOSE, and the child is still open.
C14_Witness ==
    /\ dry_run
    /\ run_result = ReturnedCode(0)
    /\ \E id \in ReadyDependents :
           /\ determine_phase_from_comments(issues[id].comments) = CLOSE
           /\ issues[id].status = OPEN
           /\ events[Len(events)] = GetIssueEvent(id, TRUE)

\* The child an iteration selects on the tracker as it is.
SelectedNow ==
    _select_next_child(issues, get_issue(issues, EpicId),
                       settings.run.resume_in_progress).selected

\* C15: when the phase of the selected child is CLOSE, the iteration calls
\* close on that child once, after its fetches and as its last effect: no
\* command is run and no comment posted; the close done, the child is closed
\* and the iteration ends with `continue` (run returns 0 when `once` is set,
\* and sleeps before the next iteration otherwise).
C15_ClosePhaseClosesOnce ==
    [][(/\ StartsIteration
        /\ ~dry_run
        /\ issues[EpicId].issue_type = EPIC
        /\ ReadyDependents # {}
        /\ determine_phase_from_comments(SelectedNow[1].comments) = CLOSE
        /\ FetchesSucceed)
       => LET id == SelectedNow[1].id
              last == NewEvents[Len(NewEvents)]
          IN  /\ id \in ReadyDependents
              /\ last.op = "close" /\ last.id = id
              /\ \A k \in 1..(Len(NewEvents) - 1) :
                     NewEvents[k].op \in {"iteration", "get_issue"}
              /\ worktree' = worktree
              /\ ~last.ok =>
                     /\ issues' = issues
                     /\ run_result' = Raised(BeadsError, BdFailedText)
              /\ last.ok =>
                     /\ issues' = [issues EXCEPT ![id].status = CLOSED]
                     /\ IF once
                        THEN run_result' = ReturnedCode(0) /\ pc' = "done"
                        ELSE run_result' = Running /\ pc' = "sleep"]_vars

\* C15 witness: the loop closed the first dependent, whose latest marker is
\* LGTM, and sleeps before the next iteration.
C15_Witness ==
    /\ pc = "sleep"
    /\ events[Len(events)] = CloseEvent(RunChildIds[1], TRUE)
    /\ issues[RunChildIds[1]].status = CLOSED
    /\ latest_marker(issues[RunChildIds[1]].comments) = LGTM

\* The phases the confirmation after an implementer and after a reviewer
\* command waits for.
ExpectedPhases ==
    IF frame.phase_name = IMPLEMENTER THEN {REVIEW} ELSE {CLOSE, IMPLEMENT}

FailureComment ==
    IF frame.phase_name = IMPLEMENTER THEN ImplementerPhaseComment
    ELSE ReviewerPhaseComment

\* The step ends the iteration with `continue`.
Continues ==
    IF once THEN run_result' = ReturnedCode(0) /\ pc' = "done"
    ELSE run_result' = Running /\ pc' = "sleep"

\* C16: after a command that exited 0, the phase confirmation ends the
\* iteration with `continue` only when the phase it read last is REVIEW
\* (implementer) or CLOSE or IMPLEMENT (reviewer); when it gives up with
\* another phase, the failure comment of the phase is posted on the issue
\* and CommandError is raised.
C16_PhaseConfirmedOrCommandError ==
    [][(/\ pc = "wait_for_phase"
        /\ pc' # "wait_for_phase"
        /\ FetchesSucceed)
       => /\ Continues => last_phase' \in ExpectedPhases
          /\ last_phase' \in ExpectedPhases => Continues
          /\ last_phase' \notin ExpectedPhases =>
                 /\ run_result'.kind = "raised"
                 /\ run_result'.error = CommandError
                 /\ Len(issues'[frame.issue_id].comments)
                        = Len(issues[frame.issue_id].comments) + 1
                 /\ issues'[frame.issue_id]
                        .comments[Len(issues'[frame.issue_id].comments)].text
                        = FailureComment]_vars

\* The state part of C17: the iterations started never exceed
\* max_iterations, and a run that ends right after the sleep of an iteration
\* that ended with `continue` ends with the ConfigError of the exhausted
\* loop, which is raised in no other case.
C17_IterationsBounded ==
    /\ iteration <= max_iterations
    /\ Cardinality({k \in DOMAIN events : events[k].op = "iteration"}) = iteration
    /\ (pc = "done" /\ events # <<>> /\ events[Len(events)].op = "sleep") =>
           /\ iteration = max_iterations
           /\ ~once
           /\ run_result =
                  Raised(ConfigError, MaxIterationsText \o int_str(max_iterations))
    /\ (run_result.kind = "raised" /\ run_result.error = ConfigError
            /\ startswith(run_result.message, MaxIterationsText)) =>
           /\ iteration = max_iterations
           /\ events[Len(events)] = SleepEvent(1000 * settings.interval_seconds)

\* C17: run starts at most max_iterations iterations, raises ConfigError
\* when that many iterations all ended with `continue`, and always ends.
C17_RunTerminates == []C17_IterationsBounded /\ <>(pc \in {"done", "idle"})

\* C17 witness: max_iterations is 2, an implementer and then a reviewer
\* iteration ended with `continue`, and run raised ConfigError.
C17_Witness ==
    /\ max_iterations = 2
    /\ iteration = 2
    /\ run_result.kind = "raised" /\ run_result.error = ConfigError
    /\ Cardinality({k \in DOMAIN events : events[k].op = "exec"}) = 2
    /\ Cardinality({k \in DOMAIN events : events[k].op = "sleep"
                        /\ events[k].ms = 1000 * settings.interval_seconds}) = 2

\* `part` occurs in s.
contains(s, part) ==
    \E i \in 0..(Len(s) - Len(part)) : SubSeq(s, i + 1, i + Len(part)) = part

\* The effects after the start of the last command.
LastExec ==
    CHOOSE k \in DOMAIN events :
        events[k].op = "exec" /\ \A j \in DOMAIN events : j > k => events[j].op # "exec"

AfterExec == SubSeq(events, LastExec + 1, Len(events))

ReturncodeField ==
    <<"r", "e", "t", "u", "r", "n", "c", "o", "d", "e", "=">>

\* C18: after a command that exits with a code c other than 0, the loop
\* writes one log file named after the issue and the phase, with
\* returncode=c, the argv and every line of stdout and of stderr in it; then
\* makes one attempt to post a comment with "{phase} command failed (exit
\* c)." and the path of the log; then raises CommandError.  After the
\* command there is no signature check, no comment made from stdout and no
\* fetch of the issue.
C18_CommandFailureDiagnosed ==
    (/\ pc = "done"
     /\ frame # NoFrame
     /\ frame.result # Nothing
     /\ frame.result[1].returncode # 0) =>
        LET r == frame.result[1]
            c == int_str(r.returncode)
            es == AfterExec
        IN  /\ Len(es) \in {3, 4}
            /\ es[1].op = "write_log"
            /\ contains(es[1].path, frame.issue_id)
            /\ contains(es[1].path, frame.phase_name)
            /\ contains(es[1].content, ReturncodeField \o c \o <<"\n">>)
            /\ contains(es[1].content, join_spaces(r.argv))
            /\ \A k \in DOMAIN splitlines(r.stdout) :
                   contains(es[1].content, splitlines(r.stdout)[k])
            /\ \A k \in DOMAIN splitlines(r.stderr) :
                   contains(es[1].content, splitlines(r.stderr)[k])
            /\ es[2].op = "logger.error"
            /\ es[3].op = "comment"
            /\ es[3].id = frame.issue_id
            /\ contains(es[3].text,
                   frame.phase_name \o CommandFailedText \o c \o <<")", ".">>)
            /\ contains(es[3].text, es[1].path)
            /\ Len(es) = 4 => ~es[3].ok /\ es[4].op = "logger.error"
            /\ es[3].ok => Len(es) = 3
            /\ run_result.kind = "raised"
            /\ run_result.error = CommandError

\* C18 witness: the command of an implementer profile that requires
\* working-tree changes and posts its stdout exited 2 with "boom" on stderr;
\* the log and the posted comment say so.
C18_Witness ==
    /\ pc = "done"
    /\ frame # NoFrame
    /\ frame.phase_name = IMPLEMENTER
    /\ frame.profile.require_git_changes
    /\ frame.profile.comment_mode = "stdout"
    /\ frame.result # Nothing
    /\ frame.result[1].returncode = 2
    /\ Len(AfterExec) = 3
    /\ AfterExec[3].ok
    /\ contains(AfterExec[3].text, <<"i", "m", "p", "l", "e", "m", "e", "n", "t", "e", "r", " ", "c", "o", "m",
                 "m", "a", "n", "d", " ", "f", "a", "i", "l", "e", "d", " ", "(", "e", "x",
                 "i", "t", " ", "2", ")", ".">>)
    /\ contains(AfterExec[1].content, <<"b", "o", "o", "m">>)
    /\ issues[frame.issue_id].comments[Len(issues[frame.issue_id].comments)].text
           = AfterExec[3].text

\* The comments of the failure paths: the command failed, the output was
\* rejected, the working tree did not change, the phase was not reached.
IsFailureComment(text) ==
    \/ contains(text, CommandFailedText)
    \/ contains(text, NoStdoutText)
    \/ contains(text, MissingMarkerText)
    \/ text \in {NoChangesComment, ImplementerPhaseComment, ReviewerPhaseComment}

\* C19: when the tracker refuses a failure comment, on any of the failure
\* paths, the refusal is logged and run still raises CommandError.
C19_FailureCommentNeverMasks ==
    \A k \in DOMAIN events :
        (/\ events[k].op = "comment"
         /\ ~events[k].ok
         /\ IsFailureComment(events[k].text)) =>
            /\ k < Len(events)
            /\ events[k + 1].op = "logger.error"
            /\ run_result.kind = "raised"
            /\ run_result.error = CommandError


IsCommentEvent(e) == e.op = "comment"

\* The command of the frame has exited with code 0 under a profile that
\* posts its stdout, and the signature check (if any) has passed.
StdoutPromoted ==
    /\ frame # NoFrame
    /\ frame.result # Nothing
    /\ frame.result[1].returncode = 0
    /\ frame.before_sig # Some(worktree)
    /\ frame.profile.comment_mode = "stdout"

\* prefix + capped body + suffix for the output of that command.
AssembledText ==
    frame.profile.comment_prefix
    \o _cap_comment_body(frame.result[1].stdout, frame.profile.comment_prefix,
                         frame.profile.comment_suffix, environ)
    \o frame.profile.comment_suffix

\* The comments the loop has sent since the start of the last command.
Posts == SelectSeq(AfterExec, IsCommentEvent)

\* The last comment of the issue of the frame.
LastCommentText ==
    issues[frame.issue_id].comments[Len(issues[frame.issue_id].comments)].text

\* C20: after a command that exited 0 under a profile in comment mode
\* "stdout" with non-blank output, when the marker of prefix + capped body +
\* suffix is one the phase expects, exactly that text is posted as one
\* comment and the phase of the issue is then one the phase confirmation
\* accepts; under any other comment mode nothing is posted from stdout.
C20_StdoutPromotedAdvancesPhase ==
    /\ (/\ frame # NoFrame
        /\ frame.result # Nothing
        /\ frame.result[1].returncode = 0
        /\ frame.before_sig # Some(worktree)
        /\ frame.profile.comment_mode # "stdout")
       => \A k \in DOMAIN Posts : Posts[k].text = frame.failure_comment
    /\ (StdoutPromoted /\ strip(frame.result[1].stdout) # <<>>)
       => \A text \in {AssembledText} :
              marker_from_text(text) \in frame.expected_markers =>
                  /\ Len(Posts) >= 1
                  /\ Posts[1].id = frame.issue_id
                  /\ Posts[1].text = text
                  /\ \A k \in DOMAIN Posts :
                         k > 1 => Posts[k].text = frame.failure_comment
                  /\ (Posts[1].ok /\ pc = "wait_for_phase" /\ polls = 0) =>
                         /\ LastCommentText = text
                         /\ determine_phase_from_comments(
                                issues[frame.issue_id].comments)
                                \in frame.expected

MissingMarkerPhrase ==
    <<"o", "u", "t", "p", "u", "t", " ", "m", "i", "s", "s", "i", "n",
      "g", " ", "e", "x", "p", "e", "c", "t", "e", "d", " ", "m", "a",
      "r", "k", "e", "r">>

\* The excerpt of the raw output `out` in a message: the stripped output,
\* or its first EXCERPT_LIMIT characters and an ellipsis.
EndsWithExcerpt(message, out) ==
    IF Len(strip(out)) <= EXCERPT_LIMIT
    THEN endswith(message, strip(out))
    ELSE endswith(message,
                  SubSeq(strip(out), 1, EXCERPT_LIMIT) \o <<ELLIPSIS>>)

\* C21: in comment mode "stdout", when the text assembled from a non-blank
\* output has no marker or a marker the phase does not expect, run raises
\* CommandError with a message that contains "output missing expected
\* marker" and ends with the excerpt of the raw output (at most
\* EXCERPT_LIMIT characters of it); exactly one comment is sent, with that
\* message and not with the assembled text, and it is the last comment of
\* the issue when the tracker takes it; the issue is never fetched.
C21_MissingMarkerRejected ==
    (/\ StdoutPromoted
     /\ strip(frame.result[1].stdout) # <<>>
     /\ marker_from_text(AssembledText) \notin frame.expected_markers)
    => /\ pc = "done"
       /\ run_result.kind = "raised"
       /\ run_result.error = CommandError
       /\ contains(run_result.message, MissingMarkerPhrase)
       /\ EndsWithExcerpt(run_result.message, frame.result[1].stdout)
       /\ Len(Posts) = 1
       /\ Posts[1].id = frame.issue_id
       /\ Posts[1].text = run_result.message
       /\ Posts[1].text # AssembledText
       /\ Posts[1].ok => LastCommentText = run_result.message
       /\ \A k \in DOMAIN AfterExec : AfterExec[k].op # "get_issue"

\* C21 witness: the implementer's command printed "No marker here" under a
\* profile in comment mode "stdout"; run raised CommandError and the last
\* comment of the issue is its message, which ends with the output.
C21_Witness ==
    /\ pc = "done"
    /\ StdoutPromoted
    /\ frame.phase_name = IMPLEMENTER
    /\ frame.result[1].stdout = NoMarkerStdout
    /\ run_result.kind = "raised"
    /\ run_result.error = CommandError
    /\ contains(run_result.message, MissingMarkerPhrase)
    /\ endswith(run_result.message, strip(NoMarkerStdout))
    /\ issues[frame.issue_id].comments # <<>>
    /\ LastCommentText = run_result.message

NoStdoutPhrase ==
    <<"p", "r", "o", "d", "u", "c", "e", "d", " ", "n", "o", " ", "s",
      "t", "d", "o", "u", "t">>

\* The comments of the issue of the frame, and those before the last.
FrameComments == issues[frame.issue_id].comments

AllButLast(s) == SubSeq(s, 1, Len(s) - 1)

\* C22: in comment mode "stdout", a command that exited 0 with empty or
\* blank stdout fails, whatever the prefix and suffix of the profile: run
\* raises CommandError with "produced no stdout" in the message, exactly
\* one comment is sent, with that message, it is the last comment of the
\* issue when the tracker takes it and leaves the phase of the issue as it
\* was, and the phase is not confirmed (the issue is not fetched).
C22_BlankStdoutRejected ==
    (StdoutPromoted /\ strip(frame.result[1].stdout) = <<>>)
    => /\ pc = "done"
       /\ run_result.kind = "raised"
       /\ run_result.error = CommandError
       /\ contains(run_result.message, NoStdoutPhrase)
       /\ Len(Posts) = 1
       /\ Posts[1].id = frame.issue_id
       /\ Posts[1].text = run_result.message
       /\ Posts[1].ok =>
              /\ LastCommentText = run_result.message
              /\ determine_phase_from_comments(FrameComments)
                     = determine_phase_from_comments(AllButLast(FrameComments))
       /\ \A k \in DOMAIN AfterExec : AfterExec[k].op # "get_issue"

\* C22 witness: the implementer's command printed only white space under a
\* profile whose prefix is "Ready for review: ", so that the assembled text
\* has the expected marker; run raised CommandError, the message is the
\* last comment of the issue and the issue is still to be implemented.
C22_Witness ==
    /\ pc = "done"
    /\ StdoutPromoted
    /\ frame.phase_name = IMPLEMENTER
    /\ frame.profile.comment_prefix = ReadyPrefix
    /\ frame.result[1].stdout = <<" ", "\n">>
    /\ marker_from_text(AssembledText) \in frame.expected_markers
    /\ run_result.kind = "raised"
    /\ run_result.error = CommandError
    /\ contains(run_result.message, NoStdoutPhrase)
    /\ FrameComments # <<>>
    /\ LastCommentText = run_result.message
    /\ determine_phase_from_comments(FrameComments) = IMPLEMENT

\* The limits _cap_comment_body reads from the environment of the call.
CapMaxLines ==
    _env_limit(cap_environ.BEADSFLOW_MAX_COMMENT_LINES, DEFAULT_MAX_COMMENT_LINES)

CapMaxBytes ==
    _env_limit(cap_environ.BEADSFLOW_MAX_COMMENT_BYTES, DEFAULT_MAX_COMMENT_BYTES)

\* C23: with a byte budget, prefix + _cap_comment_body(body, prefix,
\* suffix) + suffix is never longer than the budget, in bytes, the
\* truncation notice included.
C23_CappedWithinByteBudget ==
    (cap_result # NotReturned /\ CapMaxBytes # Nothing)
    => byte_len(cap_prefix \o cap_result.value \o cap_suffix) <= CapMaxBytes[1]

\* The body has more lines than the line budget; what the line budget
\* leaves of it; that is longer than the byte budget leaves room for.
OverLines ==
    CapMaxLines # Nothing /\ Len(splitlines_keepends(cap_body)) > CapMaxLines[1]

WithinLines ==
    IF OverLines
    THEN join(SubSeq(splitlines_keepends(cap_body), 1, CapMaxLines[1]))
    ELSE cap_body

OverBytes ==
    /\ CapMaxBytes # Nothing
    /\ byte_len(WithinLines)
           > Max(0, CapMaxBytes[1] - byte_len(cap_prefix) - byte_len(cap_suffix))

\* The variable is set to a number that is not positive.
NotPositive(raw) ==
    raw # Nothing /\ int_of(raw[1]) # Nothing /\ int_of(raw[1])[1] <= 0

\* C24: when the body has more lines than the line budget or more bytes
\* than the byte budget leaves it, the result of _cap_comment_body is a
\* proper prefix of the body followed by the truncation notice; otherwise,
\* and whenever both budgets are set to a number that is not positive, it is
\* the body unchanged; with the byte budget off and too many lines it is the
\* first N lines, without the line breaks at their end, and the notice.
C24_NoticeIffTruncated ==
    cap_result # NotReturned
    => LET result == cap_result.value
           kept == SubSeq(result, 1, Len(result) - Len(TRUNCATED_NOTICE))
       IN  /\ (OverLines \/ OverBytes) =>
                  /\ endswith(result, TRUNCATED_NOTICE)
                  /\ startswith(cap_body, kept)
                  /\ kept # cap_body
           /\ ~(OverLines \/ OverBytes) => result = cap_body
           /\ (/\ NotPositive(cap_environ.BEADSFLOW_MAX_COMMENT_LINES)
               /\ NotPositive(cap_environ.BEADSFLOW_MAX_COMMENT_BYTES))
              => result = cap_body
           /\ (NotPositive(cap_environ.BEADSFLOW_MAX_COMMENT_BYTES) /\ OverLines)
              => result = rstrip_newlines(WithinLines) \o TRUNCATED_NOTICE

\* C24 witness: a body of three lines under a line budget of 2 and no byte
\* budget gave the first two lines and the notice.
C24_Witness ==
    /\ cap_environ = [BEADSFLOW_MAX_COMMENT_LINES |-> Some(<<"2">>),
                      BEADSFLOW_MAX_COMMENT_BYTES |-> Some(<<"0">>)]
    /\ cap_body = <<"a", "b", "\n", "U+20AC", "x", "\r", "\n", "a", "b", "\n">>
    /\ cap_result # NotReturned
    /\ cap_result.value
           = <<"a", "b", "\n", "U+20AC", "x", "\r">> \o TRUNCATED_NOTICE

\* The first k characters of the text fit into max_bytes bytes.
Fits(k) == byte_len(SubSeq(trunc_text, 1, k)) <= trunc_max_bytes

\* C25: _truncate_utf8(text, max_bytes) is empty for max_bytes <= 0, the
\* text itself when its encoding has at most max_bytes bytes, and in every
\* case the longest prefix of whole characters of the text that fits into
\* max_bytes bytes: no part of a character that was cut is left.
C25_LongestWholeCharacterPrefix ==
    trunc_result # NotReturned
    => LET result == trunc_result.value
       IN  /\ trunc_max_bytes <= 0 => result = <<>>
           /\ (trunc_max_bytes > 0 /\ byte_len(trunc_text) <= trunc_max_bytes)
              => result = trunc_text
           /\ trunc_max_bytes > 0 =>
                  \E k \in 0..Len(trunc_text) :
                      /\ result = SubSeq(trunc_text, 1, k)
                      /\ Fits(k)
                      /\ \A j \in 0..Len(trunc_text) : Fits(j) => j <= k

\* C25 witness: "a" and a character of three bytes cut at 3 bytes, in the
\* middle of the second character, gave "a".
C25_Witness ==
    /\ trunc_text = <<"a", "U+20AC">>
    /\ trunc_max_bytes = 3
    /\ trunc_result = Returned(<<"a">>)

\* The runs of the command of the method, and those of the
\* resynchronization.
OriginalRuns == {k \in DOMAIN bd_runs : bd_runs[k].argv = call_argv(bd_call)}

ResyncRuns == {k \in DOMAIN bd_runs : bd_runs[k].argv = sync_argv(bd_call)}

\* The run failed with the symptom: "Database out of sync with JSONL" on
\* stderr.
OutOfSync(completed) ==
    completed.returncode # 0 /\ contains(completed.stderr, OutOfSyncText)

BdFailed == ~bd_outcome.returned /\ bd_outcome.error = BeadsError

\* C26: a tracker call runs its command at most twice and the
\* resynchronization at most once, in the order command, resynchronization,
\* command.  The resynchronization runs exactly when the first run failed
\* with the symptom, the second run exactly when the resynchronization then
\* succeeded.  A first failure without the symptom, a failed
\* resynchronization and a failed second run each end the call with a
\* BeadsError; a run that succeeds, first or second, ends it with the result
\* of that run.
C26_OneResyncOneRetry ==
    /\ Cardinality(OriginalRuns) <= 2
    /\ Cardinality(ResyncRuns) <= 1
    /\ Len(bd_runs) <= 3
    /\ OriginalRuns \subseteq {1, 3}
    /\ ResyncRuns \subseteq {2}
    /\ Len(bd_runs) >= 2 => OutOfSync(bd_runs[1].completed)
    /\ Len(bd_runs) = 3 => bd_runs[2].completed.returncode = 0
    /\ bd_pc = "done" =>
           /\ bd_runs # <<>>
           /\ OutOfSync(bd_runs[1].completed) <=> 2 \in ResyncRuns
           /\ (/\ OutOfSync(bd_runs[1].completed)
               /\ bd_runs[2].completed.returncode = 0) <=> 3 \in OriginalRuns
           /\ (/\ bd_runs[1].completed.returncode # 0
               /\ ~OutOfSync(bd_runs[1].completed))
              => Len(bd_runs) = 1 /\ BdFailed
           /\ (Len(bd_runs) = 2 \/ bd_runs[Len(bd_runs)].completed.returncode # 0)
              => BdFailed
           /\ (/\ Len(bd_runs) \in {1, 3}
               /\ bd_runs[Len(bd_runs)].completed.returncode = 0)
              => bd_outcome
                     = returned_value(bd_call, bd_runs[Len(bd_runs)].completed)
    /\ bd_pc # "done" => bd_outcome = NotReturned

\* C26 witness: get_issue found the database out of sync, resynchronized,
\* ran `bd show` again and returned the issue of the second run.
C26_Witness ==
    /\ bd_pc = "done"
    /\ bd_call.method = "get_issue"
    /\ Len(bd_runs) = 3
    /\ bd_runs[1].completed.returncode = 1
    /\ bd_runs[1].completed.stderr = OutOfSyncStderr
    /\ bd_runs[2].argv = <<BdWord, NoDaemonFlag, SyncWord, ImportOnlyFlag>>
    /\ bd_runs[2].completed.returncode = 0
    /\ bd_runs[3].argv = bd_runs[1].argv
    /\ bd_runs[3].completed.returncode = 0
    /\ bd_outcome = Returned("issue")

\* The command of the frame has exited with code 0 and the working tree has
\* the signature captured before it started.
TreeUnchanged ==
    /\ frame # NoFrame
    /\ frame.result # Nothing
    /\ frame.result[1].returncode = 0
    /\ frame.before_sig = Some(worktree)

\* The signatures computed since the start of the last command.
SignaturesAfterExec ==
    Cardinality({k \in DOMAIN AfterExec : AfterExec[k] = GitSignatureEvent})

\* What the loop does about an unchanged working tree, but for the exception
\* run ends with.
UnchangedTreeHandled ==
    /\ pc = "done"
    /\ run_result.kind = "raised"
    /\ LastExec > 1
    /\ events[LastExec - 1] = GitSignatureEvent
    /\ SignaturesAfterExec = 1
    /\ AfterExec[1] = GitSignatureEvent
    /\ Len(Posts) = 1
    /\ Posts[1].id = frame.issue_id
    /\ Posts[1].text = NoChangesComment
    /\ \A k \in DOMAIN AfterExec : AfterExec[k].op # "get_issue"

\* C27: under an implementer profile with require_git_changes the signature
\* of the working tree is computed right before the command starts and
\* again right after it exits 0; when the two are equal, the comment about
\* the missing working-tree changes is the one comment sent, run raises
\* CommandError and the issue is not fetched; under a profile without the
\* flag no signature is ever computed.
C27_UnchangedTreeRaisesCommandError ==
    /\ TreeUnchanged =>
           /\ UnchangedTreeHandled
           /\ run_result.error = CommandError
           /\ run_result.message = NoChangesError
    /\ (/\ frame # NoFrame
        /\ frame.phase_name = IMPLEMENTER
        /\ frame.profile.require_git_changes) =>
           /\ events[LastExec - 1] = GitSignatureEvent
           /\ (frame.result # Nothing /\ frame.result[1].returncode = 0) =>
                  AfterExec[1] = GitSignatureEvent
    /\ ~settings.implementers[ImplementerName].require_git_changes =>
           \A k \in DOMAIN events : events[k] # GitSignatureEvent

\* The fetches of the phase confirmation so far.
FetchesAfterExec ==
    Cardinality({k \in DOMAIN AfterExec : AfterExec[k].op = "get_issue"})

\* The phase of the issue of the frame as the tracker has it.
PhaseInTracker ==
    determine_next_work(frame.issue_id, issues[frame.issue_id].comments).phase

\* Between two turns of _wait_for_phase: no fetch yet and no sleep before
\* the first one, or else the last fetch read a phase that is not expected
\* and the 0.5 second sleep followed it.
C28_BetweenPolls ==
    pc = "wait_for_phase" =>
        /\ polls < MaxPolls
        /\ FetchesAfterExec = polls
        /\ polls = 0 => events[Len(events)].op # "sleep"
        /\ polls >= 1 =>
               /\ events[Len(events)] = SleepEvent(POLL_SLEEP_MS)
               /\ events[Len(events) - 1] = GetIssueEvent(frame.issue_id, TRUE)
               /\ last_phase \notin frame.expected

\* One turn of _wait_for_phase whose fetch succeeds: one fetch of the issue,
\* the phase read is the one returned; an expected phase ends the wait at
\* once, without a sleep and without a comment; the wait goes on only with
\* a phase that is not expected, and after the sleep.
C28_PollTurn ==
    (/\ pc = "wait_for_phase"
     /\ events' # events
     /\ FetchesSucceed)
    => /\ NewEvents[1] = GetIssueEvent(frame.issue_id, TRUE)
       /\ \A k \in DOMAIN NewEvents : k > 1 => NewEvents[k].op # "get_issue"
       /\ polls' = polls + 1
       /\ last_phase' = PhaseInTracker
       /\ PhaseInTracker \in frame.expected =>
              /\ NewEvents = <<GetIssueEvent(frame.issue_id, TRUE)>>
              /\ Continues
       /\ pc' = "wait_for_phase" =>
              /\ PhaseInTracker \notin frame.expected
              /\ NewEvents = <<GetIssueEvent(frame.issue_id, TRUE),
                               SleepEvent(POLL_SLEEP_MS)>>
       /\ pc' # "wait_for_phase" =>
              \A k \in DOMAIN NewEvents : NewEvents[k].op # "sleep"

\* C28: the phase confirmation fetches the issue and computes its phase at
\* once, fetches again only after a sleep of 0.5 seconds and only while the
\* phase read is not expected, stops at the first fetch whose phase is
\* expected, hands back the phase read last, and always ends.
C28_WaitForPhaseTerminates ==
    /\ []C28_BetweenPolls
    /\ [][C28_PollTurn]_vars
    /\ (pc = "wait_for_phase") ~> (pc # "wait_for_phase")

\* C28 witness: the first fetch read a phase that was not expected, the loop
\* slept 0.5 seconds, and the second fetch read an expected phase, which
\* ended the iteration.
C28_Witness ==
    /\ polls = 2
    /\ frame = NoFrame
    /\ last_phase \in {REVIEW, CLOSE, IMPLEMENT}
    /\ Len(events) >= 3
    /\ events[Len(events)].op = "get_issue"
    /\ events[Len(events)].ok
    /\ events[Len(events) - 1] = SleepEvent(POLL_SLEEP_MS)
    /\ events[Len(events) - 2] = events[Len(events)]

\* The number of the iteration each event belongs to.
IterationOf ==
    [j \in DOMAIN events |->
        Cardinality({k \in 1..j : events[k].op = "iteration"})]

\* The events of the iteration i, in order.
EventsOfIteration(i) ==
    SelectSeq([j \in DOMAIN events |-> [at |-> j, event |-> events[j]]],
              LAMBDA e : IterationOf[e.at] = i)

\* The order of the effects of one iteration, `es` being its events (each
\* with its place in the log): the iteration starts with the fetch of the
\* epic; the fetches of the selection come before the command, of which
\* there is at most one; a close comes in an iteration without a command
\* and is its last effect; every comment comes after the command; the
\* fetches of the phase confirmation, each of the issue of the command, come
\* after the comment written back, so that a comment that follows a fetch
\* is the failure comment of the phase confirmation, with which run ends.
InOrder(es) ==
    LET ops == [k \in DOMAIN es |-> es[k].event.op]
        execs == {k \in DOMAIN es : ops[k] = "exec"}
        polls_at == {k \in DOMAIN es :
                        ops[k] = "get_issue" /\ \E e \in execs : e < k}
    IN  /\ ops[1] = "iteration"
        /\ Len(es) >= 2 =>
               ops[2] = "get_issue" /\ es[2].event.id = EpicId
        /\ Cardinality(execs) <= 1
        /\ \A k \in DOMAIN es :
               /\ k \in execs =>
                      \A i \in 1..(k - 1) :
                          ops[i] \in {"iteration", "get_issue", "git_signature"}
               /\ ops[k] = "close" =>
                      /\ execs = {}
                      /\ \A i \in 1..(k - 1) : ops[i] \in {"iteration", "get_issue"}
                      /\ \A i \in (k + 1)..Len(es) : ops[i] = "sleep"
               /\ ops[k] \in {"comment", "write_log", "logger.error"} =>
                      \E e \in execs : e < k
               /\ (ops[k] = "sleep" /\ es[k].event.ms = POLL_SLEEP_MS) =>
                      k - 1 \in polls_at
               /\ k \in polls_at =>
                      /\ \A e \in execs : es[k].event.id = es[e].event.id
                      /\ \A i \in (k + 1)..Len(es) :
                             ops[i] = "comment" =>
                                 /\ es[i].at = Len(events)
                                 /\ es[i].event.text
                                        \in {ImplementerPhaseComment,
                                             ReviewerPhaseComment}
                                 /\ pc = "done"

\* Iterations follow one another: they are numbered from 1 without a gap,
\* and one that is not the first starts after the sleep that follows an
\* iteration that ended with a close or with a confirmed phase.
Sequential ==
    \A j \in DOMAIN events :
        events[j].op = "iteration" =>
            /\ events[j].n = IterationOf[j]
            /\ events[j].n <= iteration
            /\ j > 1 =>
                   /\ events[j - 1] = SleepEvent(1000 * settings.interval_seconds)
                   /\ events[j - 2].op \in {"close", "get_issue"}
                   /\ events[j - 2].ok

C29_EffectsInOrder ==
    /\ \A i \in 1..iteration : InOrder(EventsOfIteration(i))
    /\ Sequential
    /\ events # <<>> => events[1].op = "iteration"
    /\ pc = "exec" => events[Len(events)].op = "exec"
    /\ pc = "wait_for_phase" => \E k \in DOMAIN events : events[k].op = "exec"

\* The log of effects only grows.
EventsAppended ==
    /\ Len(events') >= Len(events)
    /\ SubSeq(events', 1, Len(events)) = events

\* C29: in every iteration the effects come in the order fetch of the epic,
\* fetches of the selection, command, comment written back, fetches of the
\* phase confirmation: while the command runs nothing is sent to the
\* tracker, no comment is sent in an iteration before its command has
\* exited, a close is sent only in an iteration that runs no command, no
\* fetch of the phase confirmation comes before the comment written back,
\* and an iteration starts only after the one before has ended.
C29_IterationEffectsOrdered == []C29_EffectsInOrder /\ [][EventsAppended]_vars

\* C29 witness: a first iteration ran the command, wrote its output back as
\* a comment and then fetched the issue for the phase confirmation; after
\* the sleep a second iteration started with the fetch of the epic.
C29_Witness ==
    /\ iteration = 2
    /\ \E e, c, p, s \in DOMAIN events :
           /\ e < c /\ c < p /\ p < s
           /\ IterationOf[p] = 1
           /\ events[e].op = "exec"
           /\ events[c].op = "comment" /\ events[c].ok
           /\ events[p] = GetIssueEvent(events[e].id, TRUE)
           /\ events[s] = IterationEvent(2)
           /\ s < Len(events)
           /\ events[s + 1] = GetIssueEvent(EpicId, TRUE)

\* A line that _is_lgtm_line or _is_changes_requested_line takes.
IsMarkerLine(line) == _is_lgtm_line(line) \/ _is_changes_requested_line(line)

\* The places of the lines that are not blank, and of the marker lines.
NonBlankPlaces(lines) == {k \in DOMAIN lines : strip(lines[k]) # <<>>}

MarkerPlaces(lines) == {k \in DOMAIN lines : IsMarkerLine(lines[k])}

FirstOf(places) == CHOOSE k \in places : \A j \in places : k <= j

\* The marker of a marker line.
MarkerOf(line) ==
    IF _is_lgtm_line(line)
    THEN <<"L", "G", "T", "M">>
    ELSE <<"C", "h", "a", "n", "g", "e", "s", " ", "r", "e", "q", "u", "e",
           "s", "t", "e", "d", ":">>

NoReviewOutputPhrase ==
    <<"(", "n", "o", " ", "r", "e", "v", "i", "e", "w", " ", "o", "u", "t",
      "p", "u", "t", ")">>

\* What _ensure_marker has returned for an output of these lines, of which
\* those at `nonblank` are not blank and those at `markers` are marker
\* lines, `body` being the output stripped and `rest` what follows the
\* marker and the blank line when the marker line is found later.
EnsuredFor(lines, nonblank, markers, body, rest) ==
    /\ splitlines(ensured.value) # <<>>
    /\ IsMarkerLine(splitlines(ensured.value)[1])
    /\ nonblank = {} =>
           ensured.value
               = <<"C", "h", "a", "n", "g", "e", "s", " ", "r", "e", "q", "u",
                   "e", "s", "t", "e", "d", ":", "\n", "\n">>
                 \o NoReviewOutputPhrase
    /\ (nonblank # {} /\ FirstOf(nonblank) \in markers) =>
           ensured.value = body
    /\ (markers # {} /\ FirstOf(nonblank) \notin markers) =>
           ensured.value
               = MarkerOf(lines[FirstOf(markers)]) \o <<"\n", "\n">> \o rest
    /\ (nonblank # {} /\ markers = {}) =>
           ensured.value
               = <<"C", "h", "a", "n", "g", "e", "s", " ", "r", "e", "q", "u",
                   "e", "s", "t", "e", "d", ":", "\n", "\n">>
                 \o body

\* C30, as stated: the text returned starts with a marker line; blank output
\* gives "Changes requested:", a blank line and "(no review output)"; output
\* whose first line that is not blank is a marker line is returned stripped;
\* output with a marker line only later is returned as that marker, a blank
\* line and the original output; output without a marker line gets
\* "Changes requested:".
C30_MarkerThenOriginalOutput ==
    ensured.returned =>
        \A lines \in {splitlines(review_output)} :
            \A nonblank \in {NonBlankPlaces(lines)},
               markers \in {MarkerPlaces(lines)} :
                EnsuredFor(lines, nonblank, markers,
                           strip(review_output), review_output)

\* C30, amended: as above, but what follows the marker and the blank line is
\* the output stripped of the whitespace around it.
C30_MarkerThenStrippedOutput ==
    ensured.returned =>
        \A lines \in {splitlines(review_output)},
           body \in {strip(review_output)} :
            \A nonblank \in {NonBlankPlaces(lines)},
               markers \in {MarkerPlaces(lines)} :
                EnsuredFor(lines, nonblank, markers, body, body)

\* C30 witness: "\n\nintro text\nLGTM \t" came back as
\* "LGTM\n\nintro text\nLGTM".
C30_Witness ==
    /\ review_output
           = <<"\n", "\n", "i", "n", "t", "r", "o", " ", "t", "e", "x", "t",
               "\n", "L", "G", "T", "M", " ", "\t">>
    /\ ensured
           = Returned(<<"L", "G", "T", "M", "\n", "\n", "i", "n", "t", "r",
                        "o", " ", "t", "e", "x", "t", "\n", "L", "G", "T",
                        "M">>)

(***************************************************************************)
(* C31: missing or unknown profile selection.                              *)
(***************************************************************************)

\* The profile table and the selected name the phase of the child selected
\* now needs: none for CLOSE.
NeededSelection ==
    LET phase_now == determine_phase_from_comments(SelectedNow[1].comments)
    IN  CASE phase_now = IMPLEMENT ->
                Some([name |-> implementer_name, kind |-> IMPLEMENTER,
                      profiles |-> settings.implementers])
          [] phase_now = REVIEW ->
                Some([name |-> reviewer_name, kind |-> REVIEWER,
                      profiles |-> settings.reviewers])
          [] OTHER -> Nothing

\* The selection the phase needs is unset or names no profile of the table.
SelectionMissing ==
    /\ NeededSelection # Nothing
    /\ \/ NeededSelection[1].name = Nothing
       \/ NeededSelection[1].name[1] \notin DOMAIN NeededSelection[1].profiles

\* The ConfigError message of the missing selection.
SelectionMessage ==
    IF NeededSelection[1].name = Nothing
    THEN NoProfileSelectedText(NeededSelection[1].kind)
    ELSE UnknownProfileText(NeededSelection[1].kind, NeededSelection[1].name[1])

\* The iteration raises the ConfigError of the missing selection after its
\* fetches, with no command run, nothing written to the tracker and no log
\* file.
AbortsWithConfigError ==
    /\ run_result' = Raised(ConfigError, SelectionMessage)
    /\ pc' = "done"
    /\ \A k \in DOMAIN NewEvents :
           NewEvents[k].op \in {"iteration", "get_issue"}
    /\ issues' = issues
    /\ worktree' = worktree
    /\ pending' = pending

\* C31: whenever the phase of the selected child needs a profile whose
\* selection is unset or unknown, the iteration raises ConfigError before
\* any command is executed and before any comment is written.
C31_MissingProfileRaisesConfigError ==
    [][(/\ StartsIteration
        /\ issues[EpicId].issue_type = EPIC
        /\ ReadyDependents # {}
        /\ SelectionMissing
        /\ FetchesSucceed)
       => AbortsWithConfigError]_vars

\* C31 amended: the same in a run that is not a dry run; a dry run logs the
\* missing selection and returns 0, and it too runs no command and writes
\* nothing.
C31_MissingProfileRaisesUnlessDryRun ==
    [][(/\ StartsIteration
        /\ issues[EpicId].issue_type = EPIC
        /\ ReadyDependents # {}
        /\ SelectionMissing
        /\ FetchesSucceed)
       => IF dry_run
          THEN /\ run_result' = ReturnedCode(0)
               /\ \A k \in DOMAIN NewEvents :
                      NewEvents[k].op \in {"iteration", "get_issue"}
               /\ issues' = issues
          ELSE AbortsWithConfigError]_vars

\* C31 witness: a run that is not a dry run ended with the ConfigError of
\* an unknown reviewer profile, for a child that is ready for review, having
\* fetched the epic and the child and done nothing else.
C31_Witness ==
    /\ ~dry_run
    /\ pc = "done"
    /\ run_result = Raised(ConfigError, UnknownProfileText(REVIEWER, UnknownName))
    /\ reviewer_name = Some(UnknownName)
    /\ determine_phase_from_comments(issues[RunChildIds[1]].comments) = REVIEW
    /\ events = <<IterationEvent(1), GetIssueEvent(EpicId, TRUE),
                  GetIssueEvent(RunChildIds[1], TRUE)>>

(***************************************************************************)
(* C32: the return codes of run.                                           *)
(***************************************************************************)

\* The step ends run.
RunEnds == run_result = Running /\ run_result' # Running

\* The step ends an iteration with `continue`: a close the tracker accepted,
\* or a phase confirmation that read an expected phase.
EndsWithContinue ==
    \/ /\ pc = "run"
       /\ NewEvents # <<>>
       /\ NewEvents[Len(NewEvents)].op = "close"
       /\ NewEvents[Len(NewEvents)].ok
    \/ /\ pc = "wait_for_phase"
       /\ NewEvents = <<GetIssueEvent(frame.issue_id, TRUE)>>
       /\ last_phase' \in frame.expected

\* The step takes a fatal path: the target is not an epic, the iterations
\* are used up, a fetch or a close is rejected by the tracker, or the
\* command exited with a code other than 0.
FatalStep ==
    \/ /\ pc = "run"
       /\ \/ ~has_next_iteration(iteration, max_iterations)
          \/ issues[EpicId].issue_type # EPIC
    \/ \E k \in DOMAIN NewEvents :
           NewEvents[k].op \in {"get_issue", "close"} /\ ~NewEvents[k].ok
    \/ pc = "exec" /\ frame'.result[1].returncode # 0

\* C32: run returns 0 or 2 only.  It returns 2 only from an iteration that
\* found no eligible ready dependent and some dependent not closed; it
\* returns 0 only from an iteration that found every dependent closed, from
\* a dry run, or with `once` set from a first iteration that ended with
\* `continue`.  A fatal step ends run with an exception.
C32_ReturnCodes ==
    [][/\ (RunEnds /\ run_result'.kind = "returned") =>
              /\ run_result'.code \in {0, 2}
              /\ run_result'.code = 2 =>
                     /\ pc = "run"
                     /\ ReadyDependents = {}
                     /\ \E id \in Dependents : issues[id].status # CLOSED
                     /\ issues' = issues
              /\ run_result'.code = 0 =>
                     \/ /\ pc = "run"
                        /\ \A id \in Dependents : issues[id].status = CLOSED
                        /\ NewEvents = <<IterationEvent(iteration + 1),
                                         GetIssueEvent(EpicId, TRUE)>>
                     \/ dry_run /\ pc = "run"
                     \/ once /\ iteration' = 1 /\ EndsWithContinue
       /\ FatalStep =>
              /\ run_result'.kind = "raised"
              /\ run_result'.error \in {ConfigError, CommandError, BeadsError}
              /\ pc' = "done"]_vars

\* C32 witness: with `once` set and not in a dry run, run returned 0 after
\* one iteration that ran a command and confirmed the phase, a dependent
\* still being open.
C32_Witness ==
    /\ once /\ ~dry_run
    /\ run_result = ReturnedCode(0)
    /\ iteration = 1
    /\ \E id \in Dependents : issues[id].status # CLOSED
    /\ \E k \in DOMAIN events : events[k].op = "exec"
    /\ events[Len(events)].op = "get_issue" /\ events[Len(events)].ok

(***************************************************************************)
(* C33: `once` and the sleep between iterations.                           *)
(***************************************************************************)

\* time.sleep(self.settings.interval_seconds) in the log of effects.
IntervalSleep == SleepEvent(1000 * settings.interval_seconds)

\* The effects of the log with an operation of ops.
EventsOf(ops) == {k \in DOMAIN events : events[k].op \in ops}

\* With `once` set: at most one iteration has started, exactly one when run
\* has ended; at most one close or command has been dispatched; the loop is
\* not sleeping between iterations and has never done so.
OnceShape ==
    once =>
        /\ iteration <= 1
        /\ Cardinality(EventsOf({"iteration"})) = iteration
        /\ pc = "done" => iteration = 1
        /\ Cardinality(EventsOf({"close", "exec"})) <= 1
        /\ pc # "sleep"
        /\ \A k \in DOMAIN events : events[k] # IntervalSleep

\* Every iteration after the first starts right after the sleep of
\* interval_seconds, which follows the effect that ended the iteration
\* before it with `continue`: an accepted close or the successful fetch of
\* the phase confirmation.
SleepsBetweenIterations ==
    \A k \in DOMAIN events :
        /\ (events[k].op = "iteration" /\ events[k].n > 1) =>
               /\ events[k - 1] = IntervalSleep
               /\ events[k - 2].op \in {"close", "get_issue"}
               /\ events[k - 2].ok
        /\ events[k] = IntervalSleep => ~once

\* C33: with `once` set, run executes exactly one iteration, dispatches at
\* most one close or command, never sleeps between iterations and returns 0
\* when the iteration ends with `continue`; with `once` unset, an iteration
\* that ends with `continue` is followed by the sleep of interval_seconds,
\* and only after it the next iteration starts.
C33_OnceAndSleep ==
    [][/\ OnceShape'
       /\ SleepsBetweenIterations'
       /\ EndsWithContinue =>
              IF once
              THEN run_result' = ReturnedCode(0) /\ pc' = "done"
              ELSE run_result' = Running /\ pc' = "sleep"
       /\ pc = "sleep" =>
              /\ NewEvents = <<IntervalSleep>>
              /\ pc' = "run"
              /\ iteration' = iteration]_vars

\* C33 witness: with `once` unset, the second iteration has started, after
\* the sleep of 30 seconds that followed the close of the first.
C33_Witness ==
    /\ ~once
    /\ iteration = 2
    /\ \E k \in DOMAIN events :
           /\ events[k] = IterationEvent(2)
           /\ events[k - 1] = SleepEvent(1000 * IntervalSeconds)
           /\ events[k - 2].op = "close"

(***************************************************************************)
(* C34: the signature guard without git.                                   *)
(***************************************************************************)

\* The iteration dispatches the implementer under a profile that requires
\* working-tree changes, and git is not available.
GuardWithoutGit ==
    /\ StartsIteration
    /\ ~dry_run
    /\ issues[EpicId].issue_type = EPIC
    /\ ReadyDependents # {}
    /\ determine_phase_from_comments(SelectedNow[1].comments) = IMPLEMENT
    /\ implementer_name = Some(ImplementerName)
    /\ settings.implementers[ImplementerName].require_git_changes
    /\ ~git_available
    /\ FetchesSucceed

\* The iteration ends run with an exception after its fetches: no command
\* is started, no signature computed, nothing written to the tracker.
FailsBeforeCommand ==
    /\ run_result'.kind = "raised"
    /\ pc' = "done"
    /\ \A k \in DOMAIN NewEvents :
           NewEvents[k].op \in {"iteration", "get_issue"}
    /\ issues' = issues
    /\ worktree' = worktree

\* C34: with require_git_changes set and git unavailable, the implementer
\* iteration fails with a configuration error (ConfigError) before the
\* implementer command is started and before anything is written to the
\* tracker.
C34_GitMissingRaisesConfigError ==
    [][GuardWithoutGit =>
           /\ FailsBeforeCommand
           /\ run_result'.error = ConfigError]_vars

(***************************************************************************)
(* C35: the fetches of the child selection.                                *)
(***************************************************************************)

\* The ids the step fetches after the epic, in order.
ChildFetches ==
    LET IsFetch(e) == e.op = "get_issue"
        fetches == SelectSeq(SubSeq(NewEvents, 3, Len(NewEvents)), IsFetch)
    IN  [k \in DOMAIN fetches |-> fetches[k].id]

\* The eligible dependents in the order select_next_child tries them.
SortedEligible ==
    LET IsEligible(c) ==
            c.status \in eligible_statuses(settings.run.resume_in_progress)
    IN  sorted_by_priority_key(
            SelectSeq(get_issue(issues, EpicId).dependents, IsEligible))

\* C35: the selection of one iteration fetches no child more than once: it
\* fetches the eligible dependents in their order, each once, up to and
\* including the first ready one, which is the selected child; the
\* dependents after it are not fetched, and the selected child is not
\* fetched a second time for its full record.
C35_SelectionFetchesOnce ==
    [][(/\ StartsIteration
        /\ issues[EpicId].issue_type = EPIC
        /\ \E id \in Dependents : issues[id].status # CLOSED
        /\ FetchesSucceed)
       => /\ NewEvents[2] = GetIssueEvent(EpicId, TRUE)
          /\ \A j, k \in DOMAIN ChildFetches :
                 ChildFetches[j] = ChildFetches[k] => j = k
          /\ Len(ChildFetches) <= Len(SortedEligible)
          /\ \A k \in DOMAIN ChildFetches :
                 /\ ChildFetches[k] = SortedEligible[k].id
                 /\ k < Len(ChildFetches) =>
                        ChildFetches[k] \notin ReadyDependents
          /\ IF SelectedNow = Nothing
             THEN Len(ChildFetches) = Len(SortedEligible)
             ELSE /\ ChildFetches # <<>>
                  /\ ChildFetches[Len(ChildFetches)] = SelectedNow[1].id
                  /\ SelectedNow[1].id \in ReadyDependents]_vars

\* C35 witness: an iteration fetched the first dependent, which waits for
\* the second, then the second, and started a command for the second; the
\* log holds one fetch of each.
C35_Witness ==
    /\ pc = "exec"
    /\ iteration = 1
    /\ frame.issue_id = RunChildIds[2]
    /\ events[2] = GetIssueEvent(EpicId, TRUE)
    /\ events[3] = GetIssueEvent(RunChildIds[1], TRUE)
    /\ events[4] = GetIssueEvent(RunChildIds[2], TRUE)
    /\ events[5].op = "exec"

(***************************************************************************)
(* C36: what the loop closes.                                              *)
(***************************************************************************)

\* The close calls of the step.
NewCloses == {k \in DOMAIN NewEvents : NewEvents[k].op = "close"}

\* On the tracker as the iteration finds it, the issue is a dependent of the
\* epic that is eligible by status, has every sibling dependency closed and
\* has LGTM as its latest marker.
Closable(id) ==
    /\ id # EpicId
    /\ id \in Dependents
    /\ \/ issues[id].status = OPEN
       \/ issues[id].status = IN_PROGRESS /\ settings.run.resume_in_progress
    /\ \A k \in DOMAIN issues[id].dependencies :
           issues[id].dependencies[k] \in Dependents
           => issues[issues[id].dependencies[k]].status = CLOSED
    /\ latest_marker(issues[id].comments) = LGTM

\* C36: every close the loop calls is for a dependent of the epic that, in
\* the iteration of the call, is open (or in progress, with
\* resume_in_progress), has every sibling dependency closed and has LGTM as
\* its latest marker; the epic, and an issue whose latest marker is
\* READY_FOR_REVIEW, CHANGES_REQUESTED or none, is never closed; and no
\* issue becomes closed in a step without such a call.
C36_ClosesOnlyApproved ==
    [][/\ \A k \in NewCloses :
              /\ pc = "run"
              /\ NewCloses = {k}
              /\ Closable(NewEvents[k].id)
       /\ \A id \in DOMAIN issues :
              (issues[id].status # CLOSED /\ issues'[id].status = CLOSED) =>
                  /\ NewCloses # {}
                  /\ NewEvents[Len(NewEvents)] = CloseEvent(id, TRUE)]_vars

\* C36 witness: in its second iteration the loop closed the second
\* dependent, which depends on the first: the first was closed by the first
\* iteration, and both have LGTM as their latest marker.
C36_Witness ==
    /\ iteration = 2
    /\ events[Len(events)] = CloseEvent(RunChildIds[2], TRUE)
    /\ \E k \in DOMAIN events : events[k] = CloseEvent(RunChildIds[1], TRUE)
    /\ issues[RunChildIds[2]].dependencies = <<RunChildIds[1]>>
    /\ \A id \in Dependents :
           issues[id].status = CLOSED /\ latest_marker(issues[id].comments) = LGTM

(***************************************************************************)
(* C37: the failure comments of the loop carry no marker.                  *)
(***************************************************************************)

\* The comment `text` is no marker for marker_from_comment and, when the
\* tracker took it as the last comment of the issue of the frame, the phase
\* of the issue is what it is without that comment.
CarriesNoMarker(text, accepted) ==
    \A posted \in {text} :
        /\ marker_from_comment([text |-> posted]) = None
        /\ accepted =>
               /\ FrameComments # <<>>
               /\ LastCommentText = posted
               /\ determine_phase_from_comments(FrameComments)
                      = determine_phase_from_comments(AllButLast(FrameComments))

FirstExec(phase_name, id) ==
    LET ks == {k \in DOMAIN events :
                  /\ events[k].op = "exec"
                  /\ events[k].phase = phase_name
                  /\ events[k].id = id}
    IN  IF ks = {} THEN 0 ELSE CHOOSE k \in ks : \A j \in ks : k <= j

ClosedAt(id) ==
    LET ks == {k \in DOMAIN events : events[k] = CloseEvent(id, TRUE)}
    IN  IF ks = {} THEN 0 ELSE CHOOSE k \in ks : \A j \in ks : k <= j

\* run has returned 0 with every dependent closed, each after a run of the
\* implementer, then a run of the reviewer, then its close, and after the
\* close of every sibling it depends on.
AllClosedInOrder ==
    /\ pc = "done"
    /\ run_result = ReturnedCode(0)
    /\ \A id \in Dependents :
           /\ issues[id].status = CLOSED
           /\ 0 < FirstExec(IMPLEMENTER, id)
           /\ FirstExec(IMPLEMENTER, id) < FirstExec(REVIEWER, id)
           /\ FirstExec(REVIEWER, id) < ClosedAt(id)
           /\ \A k \in DOMAIN issues[id].dependencies :
                  issues[id].dependencies[k] \in Dependents =>
                      /\ 0 < ClosedAt(issues[id].dependencies[k])
                      /\ ClosedAt(issues[id].dependencies[k]) < ClosedAt(id)

\* C38: with a tracker that never fails, agents that leave their marker
\* comment, n dependents that are open without markers and acyclic sibling
\* dependencies, run with once and dry_run unset and max_iterations at least
\* 3n + 1 eventually returns 0 with every dependent closed, each through
\* implementer, reviewer and close, none before the siblings it depends on.
C38_CooperativeRunCompletes ==
    (max_iterations >= 3 * Len(issues[EpicId].dependents) + 1)
        ~> AllClosedInOrder

\* C38 witness: run returned 0 in its seventh iteration with two dependents
\* closed, the first of which depends on the second.
C38_Witness ==
    /\ AllClosedInOrder
    /\ iteration = 7
    /\ Len(issues[EpicId].dependents) = 2
    /\ issues[RunChildIds[1]].dependencies = <<ExternalId, RunChildIds[2]>>
    /\ ClosedAt(RunChildIds[2]) < FirstExec(IMPLEMENTER, RunChildIds[1])

(***************************************************************************)
(* C39: one child at a time.                                               *)
(***************************************************************************)

\* The places in the log where the loop acts on the child an iteration
\* selected: the start of a command and the close.
Dispatches == {k \in DOMAIN events : events[k].op \in {"exec", "close"}}

\* C39: once an iteration has selected a child, every later iteration acts
\* on that same child until the loop has closed it: a command or close for
\* another child comes only after the accepted close of the child selected
\* before, and every iteration before the last acted on one child.
C39_OneChildAtATime ==
    /\ \A j, k \in Dispatches :
           (j < k /\ events[j].id # events[k].id) =>
               \E c \in j..(k - 1) :
                   /\ events[c] = CloseEvent(events[j].id, TRUE)
                   /\ \A d \in (c + 1)..k :
                          d \in Dispatches => events[d].id # events[j].id
    /\ Cardinality(Dispatches) \in {iteration - 1, iteration}
    /\ pc \in {"sleep", "exec", "wait_for_phase"} =>
           Cardinality(Dispatches) = iteration

\* C39 witness: the loop ran the implementer for the second dependent, which
\* sorts first by priority, and in the next iteration, with the first
\* dependent open and ready all the time, the reviewer for the second again.
C39_Witness ==
    /\ iteration = 2
    /\ pc = "exec"
    /\ issues[RunChildIds[1]].status = OPEN
    /\ issues[RunChildIds[1]].dependencies = <<ExternalId>>
    /\ issues[RunChildIds[1]].priority = 2
    /\ \E j, k \in Dispatches :
           /\ j < k
           /\ events[j].op = "exec" /\ events[j].phase = IMPLEMENTER
           /\ events[k].op = "exec" /\ events[k].phase = REVIEWER
           /\ events[j].id = RunChildIds[2] /\ events[k].id = RunChildIds[2]

(***************************************************************************)
(* C40: _ensure_marker and the marker parser of the run loop.              *)
(***************************************************************************)

\* The comments of an issue that is ready for review, with `text` posted as
\* the next comment.
ReviewedWith(text) ==
    CommentsOf(<<ReadyComment, text>>)

\* C40: the text _ensure_marker returns is classified by marker_from_comment
\* as LGTM or CHANGES_REQUESTED, so posted on an issue in phase REVIEW it
\* moves the issue to CLOSE or IMPLEMENT.
C40_EnsuredOutputIsReviewMarker ==
    ensured.returned =>
        \A text \in {ensured.value} :
            /\ marker_from_comment([text |-> text]) \in {LGTM, CHANGES_REQUESTED}
            /\ determine_phase_from_comments(ReviewedWith(text))
                   \in {CLOSE, IMPLEMENT}

====
